---- MODULE Spec2Model ----
(***************************************************************************)
(* Price-prediction contract (contracts/price-prediction/src/lib.rs):      *)
(* a pari-mutuel market.  The admin opens a round, players place wagers    *)
(* that are escrowed in the contract, anyone settles the round after its   *)
(* close time, and winners (or everybody, in a push) claim.                *)
(*                                                                         *)
(* Every public entry point is one action.  A call that returns Err or     *)
(* traps (failed require_auth, failed token transfer) is rolled back by    *)
(* the host, so it leaves the ledger unchanged and only records its result *)
(* in `last`.  place_prediction and claim are also followed statement by   *)
(* statement (SpecSteps), to observe the order of their checks, writes and *)
(* token transfers.                                                        *)
(***************************************************************************)
EXTENDS Integers, FiniteSets, Sequences, TLC

(* ------------------------------------------------------------------ *)
(* Program constants                                                   *)
(* ------------------------------------------------------------------ *)
BASIS_POINTS_DIVISOR == 10000

DIRECTION_UP == 0

DIRECTION_DOWN == 1

OUTCOME_UP == 0

OUTCOME_DOWN == 1

OUTCOME_FLAT == 2

(* ------------------------------------------------------------------ *)
(* Bounds of the model                                                 *)
(* ------------------------------------------------------------------ *)
\* Largest ledger timestamp the payout runs advance to (the rejection runs
\* go one step further).
MaxTime == 1

\* Tokens P1 and P2 hold before the first call.
StartBalance == 600

\* Tokens P3 holds before the first call: less than the larger valid wager.
SmallBalance == 250

\* Stand-in for i128::MAX: the checked_* operations report None outside
\* [-I128_MAX, I128_MAX].  The model checker's integers are narrower than
\* 128 bits, so the limit is scaled down; every amount of the model stays
\* far below it.
I128_MAX == 1000000000

(* ------------------------------------------------------------------ *)
(* Input domains                                                       *)
(* ------------------------------------------------------------------ *)
Players == {"P1", "P2", "P3"}

Contract == "escrow"

RoundIds == {1, 2}

\* Directions a caller may pass: Up, Down and one invalid value.
Directions == {0, 1, 2}

\* Wagers a caller may pass: zero, below the minimum, two valid amounts,
\* above the maximum.
Wagers == {0, 5, 200, 300, 20000}

\* Prices OracleClient::get_price may return to a call (0 is what the mock oracle reports for an
\* asset without a price).
Prices == {0, 50000, 55000}

\* Values of house_edge_bps passed to init.  init stores the value without
\* validating it, so values below 0 and above 10000 are among them.
EdgeChoices == {-250, 0, 500, 10000, 12000}

\* Addresses passed to init as admin, oracle_contract and token: the ones the
\* deployment uses, and one other address for each.
Admins == {"admin", "admin2"}

Oracles == {"oracle", "oracle2"}

Tokens == {"token", "token2"}

MinWagerChoice == 10

MaxWagerChoice == 10000

VARIABLES
    cfg,          \* instance storage: Admin present?, Admin, OracleContract, Token,
                  \* MinWager, MaxWager, HouseEdgeBps
    now,          \* env.ledger().timestamp()
    rounds,       \* persistent storage, DataKey::Round(id)
    bets,         \* persistent storage, DataKey::Bet(BetKey{round_id, player})
    balance,      \* token balances of the players and of the contract
    last,         \* the last call and its result
    paid,         \* history: tokens transferred by claims, per (round, player)
    nclaims,      \* history: number of successful claims, per (round, player)
    placed,       \* history: sum of the wagers successfully placed, per round
    tx            \* the handler invocation in progress, when one is followed
                  \* statement by statement (NoTx otherwise)

vars == <<cfg, now, rounds, bets, balance, last, paid, nclaims, placed, tx>>

(* ------------------------------------------------------------------ *)
(* Checked i128 arithmetic                                             *)
(* ------------------------------------------------------------------ *)
None == [some |-> FALSE, val |-> 0]

Some(v) == [some |-> TRUE, val |-> v]

Abs(x) == IF x < 0 THEN -x ELSE x

InRange(x) == x >= -I128_MAX /\ x <= I128_MAX

checked_add(a, b) == IF InRange(a + b) THEN Some(a + b) ELSE None

checked_sub(a, b) == IF InRange(a - b) THEN Some(a - b) ELSE None

checked_mul(a, b) ==
    IF a = 0 \/ b = 0 THEN Some(0)
    ELSE IF Abs(a) > I128_MAX \div Abs(b) THEN None
    ELSE Some(a * b)

\* Rust integer division truncates toward zero.
checked_div(a, b) ==
    IF b = 0 THEN None
    ELSE LET q == Abs(a) \div Abs(b)
         IN  Some(IF (a < 0) = (b < 0) THEN q ELSE -q)

\* Option::and_then for the checked chains.
and_then_div(o, b) == IF o.some THEN checked_div(o.val, b) ELSE None

(* ------------------------------------------------------------------ *)
(* Storage records                                                     *)
(* ------------------------------------------------------------------ *)
\* Instance storage before init: DataKey::Admin is absent.
NoConfig ==
    [initialized |-> FALSE, admin |-> "", oracle_contract |-> "", token |-> "",
     min_wager |-> 0, max_wager |-> 0, house_edge_bps |-> 0]

\* An absent DataKey::Round(id) entry.
NoRound ==
    [exists |-> FALSE, open_price |-> 0, close_price |-> 0, close_time |-> 0,
     total_up |-> 0, total_down |-> 0, settled |-> FALSE, outcome |-> 0,
     is_push |-> FALSE, net_pool |-> 0, winning_total |-> 0]

\* An absent DataKey::Bet(key) entry.
NoBet == [exists |-> FALSE, direction |-> 0, wager |-> 0, claimed |-> FALSE]

\* What `last` records: the entry point, its result ("Ok", the Error, or the
\* trap) and the tokens it moved.
Call(op, result, amount) == [op |-> op, result |-> result, amount |-> amount]

\* No invocation is being followed statement by statement.  An invocation
\* in progress records its entry point, the index of its next statement,
\* its arguments, and the ledger entries as they were when it started.
NoTx ==
    [op |-> "none", step |-> 0, player |-> Contract, round |-> 0, direction |-> 0,
     wager |-> 0,
     saved |-> [bets |-> [k \in RoundIds \X Players |-> NoBet],
                balance |-> [a \in Players \cup {Contract} |-> 0],
                paid |-> [k \in RoundIds \X Players |-> 0],
                nclaims |-> [k \in RoundIds \X Players |-> 0]]]

Init ==
    /\ cfg = NoConfig
    /\ now = 0
    /\ rounds = [r \in RoundIds |-> NoRound]
    /\ bets = [k \in RoundIds \X Players |-> NoBet]
    /\ balance = [a \in Players \cup {Contract} |->
                     IF a = Contract THEN 0
                     ELSE IF a = "P3" THEN SmallBalance
                     ELSE StartBalance]
    /\ last = Call("none", "Ok", 0)
    /\ paid = [k \in RoundIds \X Players |-> 0]
    /\ nclaims = [k \in RoundIds \X Players |-> 0]
    /\ placed = [r \in RoundIds |-> 0]
    /\ tx = NoTx

(* ------------------------------------------------------------------ *)
(* Environment: ledger time                                            *)
(* ------------------------------------------------------------------ *)
Tick(T) ==
    /\ now < T
    /\ now' = now + 1
    /\ UNCHANGED <<cfg, rounds, bets, balance, last, paid, nclaims, placed, tx>>

(* ------------------------------------------------------------------ *)
(* Token contract: TokenClient::transfer                               *)
(* ------------------------------------------------------------------ *)
\* Variant of TransferOk: the token moves funds the sender does not hold.
TransferOk_NoBalanceCheck(from, amount) == amount >= 0

\* The transfer traps on a negative amount or an insufficient balance.
TransferOk(from, amount) == amount >= 0 /\ balance[from] >= amount

\* Variant of Transfer: the recipient is credited, the sender is not debited.
Transfer_NoDebit(from, to, amount) ==
    [a \in DOMAIN balance |->
        IF a = to /\ a # from THEN balance[a] + amount ELSE balance[a]]

Transfer(from, to, amount) ==
    [a \in DOMAIN balance |->
        IF a = from /\ a = to THEN balance[a]
        ELSE IF a = from THEN balance[a] - amount
        ELSE IF a = to THEN balance[a] + amount
        ELSE balance[a]]

(* ------------------------------------------------------------------ *)
(* init                                                                *)
(* ------------------------------------------------------------------ *)
require_initialized == cfg.initialized

\* Variant of InitError: the already-initialized check is missing.
InitError_NoInitCheck(auth) ==
    IF ~auth THEN "AuthTrap"
    ELSE "Ok"

InitError(auth) ==
    IF cfg.initialized THEN "AlreadyInitialized"
    ELSE IF ~auth THEN "AuthTrap"
    ELSE "Ok"

InitCall(auth, admin, oracle_contract, token, min_wager, max_wager, house_edge_bps) ==
    LET e == InitError(auth) IN
    /\ last' = Call("init", e, 0)
    /\ IF e = "Ok"
       THEN cfg' = [initialized |-> TRUE, admin |-> admin,
                    oracle_contract |-> oracle_contract, token |-> token,
                    min_wager |-> min_wager, max_wager |-> max_wager,
                    house_edge_bps |-> house_edge_bps]
       ELSE UNCHANGED cfg
    /\ UNCHANGED <<now, rounds, bets, balance, paid, nclaims, placed, tx>>

(* ------------------------------------------------------------------ *)
(* open_market                                                         *)
(* ------------------------------------------------------------------ *)
\* Variant of OpenError: the round-exists check is missing.
OpenError_NoExistsCheck(auth, round_id, close_time, oracle_price) ==
    IF ~require_initialized THEN "NotInitialized"
    ELSE IF ~auth THEN "AuthTrap"
    ELSE IF close_time <= now THEN "InvalidCloseTime"
    ELSE IF oracle_price <= 0 THEN "InvalidPrice"
    ELSE "Ok"

\* Variant of OpenError: a close_time equal to the ledger time is accepted.
OpenError_NowOk(auth, round_id, close_time, oracle_price) ==
    IF ~require_initialized THEN "NotInitialized"
    ELSE IF ~auth THEN "AuthTrap"
    ELSE IF close_time < now THEN "InvalidCloseTime"
    ELSE IF rounds[round_id].exists THEN "RoundAlreadyExists"
    ELSE IF oracle_price <= 0 THEN "InvalidPrice"
    ELSE "Ok"

OpenError(auth, round_id, close_time, oracle_price) ==
    IF ~require_initialized THEN "NotInitialized"
    ELSE IF ~auth THEN "AuthTrap"
    ELSE IF close_time <= now THEN "InvalidCloseTime"
    ELSE IF rounds[round_id].exists THEN "RoundAlreadyExists"
    ELSE IF oracle_price <= 0 THEN "InvalidPrice"
    ELSE "Ok"

NewRound(open_price, close_time) ==
    [exists |-> TRUE, open_price |-> open_price, close_price |-> 0,
     close_time |-> close_time, total_up |-> 0, total_down |-> 0,
     settled |-> FALSE, outcome |-> 0, is_push |-> FALSE, net_pool |-> 0,
     winning_total |-> 0]

OpenMarket(auth, round_id, close_time, oracle_price) ==
    LET e == OpenError(auth, round_id, close_time, oracle_price) IN
    /\ last' = Call("open", e, 0)
    /\ IF e = "Ok"
       THEN rounds' = [rounds EXCEPT ![round_id] = NewRound(oracle_price, close_time)]
       ELSE UNCHANGED rounds
    /\ UNCHANGED <<cfg, now, bets, balance, paid, nclaims, placed, tx>>

(* ------------------------------------------------------------------ *)
(* place_prediction                                                    *)
(* ------------------------------------------------------------------ *)
\* The side total after the checked_add of the wager.
PlaceNewTotal(round, direction, wager) ==
    IF direction = DIRECTION_UP
    THEN checked_add(round.total_up, wager)
    ELSE checked_add(round.total_down, wager)

\* Variant of PlaceGuard: a wager is still accepted at close_time itself.
PlaceGuard_LateOk(player, round_id, direction, wager) ==
    IF direction # DIRECTION_UP /\ direction # DIRECTION_DOWN THEN "InvalidDirection"
    ELSE IF wager <= 0 THEN "InvalidAmount"
    ELSE IF wager < cfg.min_wager THEN "WagerTooLow"
    ELSE IF wager > cfg.max_wager THEN "WagerTooHigh"
    ELSE IF ~rounds[round_id].exists THEN "RoundNotFound"
    ELSE IF rounds[round_id].settled THEN "AlreadySettled"
    ELSE IF now > rounds[round_id].close_time THEN "RoundClosed"
    ELSE IF bets[<<round_id, player>>].exists THEN "BetAlreadyPlaced"
    ELSE "Ok"

\* Variant of PlaceGuard: the bet-exists check is missing.
PlaceGuard_NoBetCheck(player, round_id, direction, wager) ==
    IF direction # DIRECTION_UP /\ direction # DIRECTION_DOWN THEN "InvalidDirection"
    ELSE IF wager <= 0 THEN "InvalidAmount"
    ELSE IF wager < cfg.min_wager THEN "WagerTooLow"
    ELSE IF wager > cfg.max_wager THEN "WagerTooHigh"
    ELSE IF ~rounds[round_id].exists THEN "RoundNotFound"
    ELSE IF rounds[round_id].settled THEN "AlreadySettled"
    ELSE IF now >= rounds[round_id].close_time THEN "RoundClosed"
    ELSE "Ok"

\* Variant of PlaceGuard: the already-settled check is missing.
PlaceGuard_NoSettledCheck(player, round_id, direction, wager) ==
    IF direction # DIRECTION_UP /\ direction # DIRECTION_DOWN THEN "InvalidDirection"
    ELSE IF wager <= 0 THEN "InvalidAmount"
    ELSE IF wager < cfg.min_wager THEN "WagerTooLow"
    ELSE IF wager > cfg.max_wager THEN "WagerTooHigh"
    ELSE IF ~rounds[round_id].exists THEN "RoundNotFound"
    ELSE IF now >= rounds[round_id].close_time THEN "RoundClosed"
    ELSE IF bets[<<round_id, player>>].exists THEN "BetAlreadyPlaced"
    ELSE "Ok"

\* Variant of PlaceGuard: the round is looked up before the direction and
\* the wager are validated, and the close time is checked before settled.
PlaceGuard_RoundFirst(player, round_id, direction, wager) ==
    IF ~rounds[round_id].exists THEN "RoundNotFound"
    ELSE IF now >= rounds[round_id].close_time THEN "RoundClosed"
    ELSE IF rounds[round_id].settled THEN "AlreadySettled"
    ELSE IF direction # DIRECTION_UP /\ direction # DIRECTION_DOWN THEN "InvalidDirection"
    ELSE IF wager <= 0 THEN "InvalidAmount"
    ELSE IF wager < cfg.min_wager THEN "WagerTooLow"
    ELSE IF wager > cfg.max_wager THEN "WagerTooHigh"
    ELSE IF bets[<<round_id, player>>].exists THEN "BetAlreadyPlaced"
    ELSE "Ok"

\* Variant of PlaceGuard: a round accepts one bet only, whoever placed it.
PlaceGuard_OneBetPerRound(player, round_id, direction, wager) ==
    IF direction # DIRECTION_UP /\ direction # DIRECTION_DOWN THEN "InvalidDirection"
    ELSE IF wager <= 0 THEN "InvalidAmount"
    ELSE IF wager < cfg.min_wager THEN "WagerTooLow"
    ELSE IF wager > cfg.max_wager THEN "WagerTooHigh"
    ELSE IF ~rounds[round_id].exists THEN "RoundNotFound"
    ELSE IF rounds[round_id].settled THEN "AlreadySettled"
    ELSE IF now >= rounds[round_id].close_time THEN "RoundClosed"
    ELSE IF \E p \in Players : bets[<<round_id, p>>].exists THEN "BetAlreadyPlaced"
    ELSE "Ok"

\* Variant of PlaceGuard: a player may hold a bet in one round only.
PlaceGuard_AnyRoundBet(player, round_id, direction, wager) ==
    IF direction # DIRECTION_UP /\ direction # DIRECTION_DOWN THEN "InvalidDirection"
    ELSE IF wager <= 0 THEN "InvalidAmount"
    ELSE IF wager < cfg.min_wager THEN "WagerTooLow"
    ELSE IF wager > cfg.max_wager THEN "WagerTooHigh"
    ELSE IF ~rounds[round_id].exists THEN "RoundNotFound"
    ELSE IF rounds[round_id].settled THEN "AlreadySettled"
    ELSE IF now >= rounds[round_id].close_time THEN "RoundClosed"
    ELSE IF \E r \in RoundIds : bets[<<r, player>>].exists THEN "BetAlreadyPlaced"
    ELSE "Ok"

\* The guards of place_prediction in source order, up to the bet-exists check.
PlaceGuard(player, round_id, direction, wager) ==
    IF direction # DIRECTION_UP /\ direction # DIRECTION_DOWN THEN "InvalidDirection"
    ELSE IF wager <= 0 THEN "InvalidAmount"
    ELSE IF wager < cfg.min_wager THEN "WagerTooLow"
    ELSE IF wager > cfg.max_wager THEN "WagerTooHigh"
    ELSE IF ~rounds[round_id].exists THEN "RoundNotFound"
    ELSE IF rounds[round_id].settled THEN "AlreadySettled"
    ELSE IF now >= rounds[round_id].close_time THEN "RoundClosed"
    ELSE IF bets[<<round_id, player>>].exists THEN "BetAlreadyPlaced"
    ELSE "Ok"

\* Variant of PlaceError: player.require_auth() is missing.
PlaceError_NoAuth(auth, player, round_id, direction, wager) ==
    IF ~require_initialized THEN "NotInitialized"
    ELSE IF PlaceGuard(player, round_id, direction, wager) # "Ok"
         THEN PlaceGuard(player, round_id, direction, wager)
    ELSE IF ~TransferOk(player, wager) THEN "TransferTrap"
    ELSE IF ~PlaceNewTotal(rounds[round_id], direction, wager).some THEN "Overflow"
    ELSE "Ok"

PlaceError(auth, player, round_id, direction, wager) ==
    IF ~require_initialized THEN "NotInitialized"
    ELSE IF ~auth THEN "AuthTrap"
    ELSE IF PlaceGuard(player, round_id, direction, wager) # "Ok"
         THEN PlaceGuard(player, round_id, direction, wager)
    ELSE IF ~TransferOk(player, wager) THEN "TransferTrap"
    ELSE IF ~PlaceNewTotal(rounds[round_id], direction, wager).some THEN "Overflow"
    ELSE "Ok"

\* Variant of PlaceRound: every wager is added to total_up.
PlaceRound_AlwaysUp(round, direction, wager) ==
    [round EXCEPT !.total_up = checked_add(round.total_up, wager).val]

\* Variant of PlaceRound: the wager is added to both side totals.
PlaceRound_BothSides(round, direction, wager) ==
    [round EXCEPT !.total_up = checked_add(round.total_up, wager).val,
                  !.total_down = checked_add(round.total_down, wager).val]

\* The round record place_prediction writes back.
PlaceRound(round, direction, wager) ==
    IF direction = DIRECTION_UP
    THEN [round EXCEPT !.total_up = PlaceNewTotal(round, direction, wager).val]
    ELSE [round EXCEPT !.total_down = PlaceNewTotal(round, direction, wager).val]

\* The bet record place_prediction stores.
PlaceBet(direction, wager) ==
    [exists |-> TRUE, direction |-> direction, wager |-> wager, claimed |-> FALSE]

PlacePrediction(auth, player, round_id, direction, wager) ==
    LET e == PlaceError(auth, player, round_id, direction, wager) IN
    /\ last' = Call("place", e, IF e = "Ok" THEN wager ELSE 0)
    /\ IF e = "Ok"
       THEN /\ balance' = Transfer(player, Contract, wager)
            /\ rounds' = [rounds EXCEPT ![round_id] = PlaceRound(@, direction, wager)]
            /\ bets' = [bets EXCEPT ![<<round_id, player>>] = PlaceBet(direction, wager)]
            /\ placed' = [placed EXCEPT ![round_id] = @ + wager]
       ELSE UNCHANGED <<balance, rounds, bets, placed>>
    /\ UNCHANGED <<cfg, now, paid, nclaims, tx>>

(* ------------------------------------------------------------------ *)
(* settle_round                                                        *)
(* ------------------------------------------------------------------ *)
\* Variant of SettleOutcome: an unchanged price counts as Up.
SettleOutcome_FlatIsUp(open_price, close_price) ==
    IF close_price >= open_price THEN OUTCOME_UP
    ELSE IF close_price < open_price THEN OUTCOME_DOWN
    ELSE OUTCOME_FLAT

SettleOutcome(open_price, close_price) ==
    IF close_price > open_price THEN OUTCOME_UP
    ELSE IF close_price < open_price THEN OUTCOME_DOWN
    ELSE OUTCOME_FLAT

\* Variant of SettleIsPush: only a flat outcome is a push.
SettleIsPush_FlatOnly(outcome, total_pool, total_up, total_down) ==
    outcome = OUTCOME_FLAT

\* Variant of SettleIsPush: a one-sided round is not a push.
SettleIsPush_NoOneSided(outcome, total_pool, total_up, total_down) ==
    \/ outcome = OUTCOME_FLAT
    \/ total_pool = 0

SettleIsPush(outcome, total_pool, total_up, total_down) ==
    \/ outcome = OUTCOME_FLAT
    \/ total_pool = 0
    \/ total_up = 0
    \/ total_down = 0

\* Variant of SettleFee: the division precedes the multiplication.
SettleFee_DivFirst(total_pool, house_edge_bps) ==
    IF checked_div(total_pool, BASIS_POINTS_DIVISOR).some
    THEN checked_mul(checked_div(total_pool, BASIS_POINTS_DIVISOR).val, house_edge_bps)
    ELSE None

\* fee = total_pool.checked_mul(house_edge_bps).and_then(checked_div(10_000))
SettleFee(total_pool, house_edge_bps) ==
    and_then_div(checked_mul(total_pool, house_edge_bps), BASIS_POINTS_DIVISOR)

\* Variant of SettleNetPool: no fee is withheld.
SettleNetPool_NoFee(total_pool, house_edge_bps) ==
    IF SettleFee(total_pool, house_edge_bps).some THEN Some(total_pool) ELSE None

\* Variant of SettleNetPool: the fee is added to the pool.
SettleNetPool_AddFee(total_pool, house_edge_bps) ==
    IF SettleFee(total_pool, house_edge_bps).some
    THEN checked_add(total_pool, SettleFee(total_pool, house_edge_bps).val)
    ELSE None

\* net = total_pool.checked_sub(fee); None when the fee or the difference overflows.
SettleNetPool(total_pool, house_edge_bps) ==
    IF SettleFee(total_pool, house_edge_bps).some
    THEN checked_sub(total_pool, SettleFee(total_pool, house_edge_bps).val)
    ELSE None

\* Variant of SettleWinningTotal: the whole pool is the divisor.
SettleWinningTotal_WholePool(outcome, total_up, total_down) ==
    total_up + total_down

SettleWinningTotal(outcome, total_up, total_down) ==
    IF outcome = OUTCOME_UP THEN total_up ELSE total_down

\* The pure part of settle_round: None on Overflow, else the four results.
SettleCompute(open_price, close_price, total_up, total_down, house_edge_bps) ==
    LET total_pool == checked_add(total_up, total_down)
        outcome == SettleOutcome(open_price, close_price)
    IN  IF ~total_pool.some THEN None
        ELSE IF SettleIsPush(outcome, total_pool.val, total_up, total_down)
             THEN Some([outcome |-> outcome, is_push |-> TRUE,
                        net_pool |-> 0, winning_total |-> 0])
        ELSE IF ~SettleNetPool(total_pool.val, house_edge_bps).some THEN None
        ELSE Some([outcome |-> outcome, is_push |-> FALSE,
                   net_pool |-> SettleNetPool(total_pool.val, house_edge_bps).val,
                   winning_total |-> SettleWinningTotal(outcome, total_up, total_down)])

\* Variant of SettleResult: the fee rate grows with the round id.
SettleResult_ByRound(round_id, oracle_price) ==
    SettleCompute(rounds[round_id].open_price, oracle_price, rounds[round_id].total_up,
                  rounds[round_id].total_down, cfg.house_edge_bps * round_id)

SettleResult(round_id, oracle_price) ==
    SettleCompute(rounds[round_id].open_price, oracle_price, rounds[round_id].total_up,
                  rounds[round_id].total_down, cfg.house_edge_bps)

\* Variant of SettleError: the already-settled check is missing.
SettleError_NoSettledCheck(round_id, oracle_price) ==
    IF ~require_initialized THEN "NotInitialized"
    ELSE IF ~rounds[round_id].exists THEN "RoundNotFound"
    ELSE IF now < rounds[round_id].close_time THEN "RoundNotClosed"
    ELSE IF ~SettleResult(round_id, oracle_price).some THEN "Overflow"
    ELSE "Ok"

\* Variant of SettleError: a round may be settled one tick before close_time.
SettleError_EarlyOk(round_id, oracle_price) ==
    IF ~require_initialized THEN "NotInitialized"
    ELSE IF ~rounds[round_id].exists THEN "RoundNotFound"
    ELSE IF rounds[round_id].settled THEN "AlreadySettled"
    ELSE IF now + 1 < rounds[round_id].close_time THEN "RoundNotClosed"
    ELSE IF ~SettleResult(round_id, oracle_price).some THEN "Overflow"
    ELSE "Ok"

\* Variant of SettleError: settle_round demands an authorization, which a
\* call of settle_round does not carry.
SettleError_RequireAuth(round_id, oracle_price) ==
    IF ~require_initialized THEN "NotInitialized"
    ELSE IF ~rounds[round_id].exists THEN "RoundNotFound"
    ELSE "AuthTrap"

\* Variant of SettleError: a round without wagers cannot be settled.
SettleError_NeedsBets(round_id, oracle_price) ==
    IF ~require_initialized THEN "NotInitialized"
    ELSE IF ~rounds[round_id].exists THEN "RoundNotFound"
    ELSE IF rounds[round_id].settled THEN "AlreadySettled"
    ELSE IF now < rounds[round_id].close_time THEN "RoundNotClosed"
    ELSE IF rounds[round_id].total_up + rounds[round_id].total_down = 0 THEN "NoBets"
    ELSE IF ~SettleResult(round_id, oracle_price).some THEN "Overflow"
    ELSE "Ok"

\* Variant of SettleError: the closing price is validated as the opening price is.
SettleError_ValidatePrice(round_id, oracle_price) ==
    IF ~require_initialized THEN "NotInitialized"
    ELSE IF ~rounds[round_id].exists THEN "RoundNotFound"
    ELSE IF rounds[round_id].settled THEN "AlreadySettled"
    ELSE IF now < rounds[round_id].close_time THEN "RoundNotClosed"
    ELSE IF oracle_price <= 0 THEN "InvalidPrice"
    ELSE IF ~SettleResult(round_id, oracle_price).some THEN "Overflow"
    ELSE "Ok"

SettleError(round_id, oracle_price) ==
    IF ~require_initialized THEN "NotInitialized"
    ELSE IF ~rounds[round_id].exists THEN "RoundNotFound"
    ELSE IF rounds[round_id].settled THEN "AlreadySettled"
    ELSE IF now < rounds[round_id].close_time THEN "RoundNotClosed"
    ELSE IF ~SettleResult(round_id, oracle_price).some THEN "Overflow"
    ELSE "Ok"

\* The round record settle_round writes back.
SettledRound(round, close_price, res) ==
    [round EXCEPT !.close_price = close_price, !.settled = TRUE,
                  !.outcome = res.outcome, !.is_push = res.is_push,
                  !.net_pool = res.net_pool, !.winning_total = res.winning_total]

SettleRound(round_id, oracle_price) ==
    LET e == SettleError(round_id, oracle_price) IN
    /\ last' = Call("settle", e, 0)
    /\ IF e = "Ok"
       THEN rounds' = [rounds EXCEPT ![round_id] =
                          SettledRound(@, oracle_price, SettleResult(round_id, oracle_price).val)]
       ELSE UNCHANGED rounds
    /\ UNCHANGED <<cfg, now, bets, balance, paid, nclaims, placed, tx>>

(* ------------------------------------------------------------------ *)
(* claim                                                               *)
(* ------------------------------------------------------------------ *)
\* Variant of ClaimPayout: the winner's share is rounded up.
ClaimPayout_RoundUp(round, bet) ==
    IF round.is_push THEN Some(bet.wager)
    ELSE IF bet.direction = round.outcome
         THEN and_then_div(checked_add(checked_mul(round.net_pool, bet.wager).val,
                                       round.winning_total - 1),
                           round.winning_total)
    ELSE Some(0)

\* Variant of ClaimPayout: the house edge is withheld from a push refund.
ClaimPayout_PushFee(round, bet) ==
    IF round.is_push
    THEN Some(bet.wager - (bet.wager * cfg.house_edge_bps) \div BASIS_POINTS_DIVISOR)
    ELSE IF bet.direction = round.outcome
         THEN and_then_div(checked_mul(round.net_pool, bet.wager), round.winning_total)
    ELSE Some(0)

\* Variant of ClaimPayout: the division precedes the multiplication.
ClaimPayout_DivFirst(round, bet) ==
    IF round.is_push THEN Some(bet.wager)
    ELSE IF bet.direction = round.outcome
         THEN IF checked_div(round.net_pool, round.winning_total).some
              THEN checked_mul(checked_div(round.net_pool, round.winning_total).val,
                               bet.wager)
              ELSE None
    ELSE Some(0)

\* Variant of ClaimPayout: a losing bet gets its wager back.
ClaimPayout_LoserRefund(round, bet) ==
    IF round.is_push THEN Some(bet.wager)
    ELSE IF bet.direction = round.outcome
         THEN and_then_div(checked_mul(round.net_pool, bet.wager), round.winning_total)
    ELSE Some(bet.wager)

\* payout: the wager in a push, the proportional share for a winner, else 0.
ClaimPayout(round, bet) ==
    IF round.is_push THEN Some(bet.wager)
    ELSE IF bet.direction = round.outcome
         THEN and_then_div(checked_mul(round.net_pool, bet.wager), round.winning_total)
    ELSE Some(0)

\* Variant of ClaimGuard: the claimed flag is not checked.
ClaimGuard_NoClaimedCheck(player, round_id) ==
    IF ~rounds[round_id].exists THEN "RoundNotFound"
    ELSE IF ~rounds[round_id].settled THEN "NotSettled"
    ELSE IF ~bets[<<round_id, player>>].exists THEN "BetNotFound"
    ELSE IF ~ClaimPayout(rounds[round_id], bets[<<round_id, player>>]).some THEN "Overflow"
    ELSE IF ClaimPayout(rounds[round_id], bets[<<round_id, player>>]).val = 0 THEN "NoPayout"
    ELSE "Ok"

\* Variant of ClaimGuard: the not-settled check is missing.
ClaimGuard_NoSettledCheck(player, round_id) ==
    IF ~rounds[round_id].exists THEN "RoundNotFound"
    ELSE IF ~bets[<<round_id, player>>].exists THEN "BetNotFound"
    ELSE IF bets[<<round_id, player>>].claimed THEN "AlreadyClaimed"
    ELSE IF ~ClaimPayout(rounds[round_id], bets[<<round_id, player>>]).some THEN "Overflow"
    ELSE IF ClaimPayout(rounds[round_id], bets[<<round_id, player>>]).val = 0 THEN "NoPayout"
    ELSE "Ok"

\* Variant of ClaimGuard: the bet is looked up before the settled check.
ClaimGuard_BetFirst(player, round_id) ==
    IF ~rounds[round_id].exists THEN "RoundNotFound"
    ELSE IF ~bets[<<round_id, player>>].exists THEN "BetNotFound"
    ELSE IF ~rounds[round_id].settled THEN "NotSettled"
    ELSE IF bets[<<round_id, player>>].claimed THEN "AlreadyClaimed"
    ELSE IF ~ClaimPayout(rounds[round_id], bets[<<round_id, player>>]).some THEN "Overflow"
    ELSE IF ClaimPayout(rounds[round_id], bets[<<round_id, player>>]).val = 0 THEN "NoPayout"
    ELSE "Ok"

\* Variant of ClaimGuard: a payout of zero is accepted.
ClaimGuard_ZeroPayoutOk(player, round_id) ==
    IF ~rounds[round_id].exists THEN "RoundNotFound"
    ELSE IF ~rounds[round_id].settled THEN "NotSettled"
    ELSE IF ~bets[<<round_id, player>>].exists THEN "BetNotFound"
    ELSE IF bets[<<round_id, player>>].claimed THEN "AlreadyClaimed"
    ELSE IF ~ClaimPayout(rounds[round_id], bets[<<round_id, player>>]).some THEN "Overflow"
    ELSE "Ok"

\* The guards of claim in source order, up to the payout check.
ClaimGuard(player, round_id) ==
    IF ~rounds[round_id].exists THEN "RoundNotFound"
    ELSE IF ~rounds[round_id].settled THEN "NotSettled"
    ELSE IF ~bets[<<round_id, player>>].exists THEN "BetNotFound"
    ELSE IF bets[<<round_id, player>>].claimed THEN "AlreadyClaimed"
    ELSE IF ~ClaimPayout(rounds[round_id], bets[<<round_id, player>>]).some THEN "Overflow"
    ELSE IF ClaimPayout(rounds[round_id], bets[<<round_id, player>>]).val = 0 THEN "NoPayout"
    ELSE "Ok"

ClaimError(auth, player, round_id) ==
    IF ~require_initialized THEN "NotInitialized"
    ELSE IF ~auth THEN "AuthTrap"
    ELSE IF ClaimGuard(player, round_id) # "Ok" THEN ClaimGuard(player, round_id)
    ELSE IF ~TransferOk(Contract, ClaimPayout(rounds[round_id],
                                              bets[<<round_id, player>>]).val)
         THEN "TransferTrap"
    ELSE "Ok"

\* The bet record claim writes back before the transfer.
ClaimedBet(bet) == [bet EXCEPT !.claimed = TRUE]

Claim(auth, player, round_id) ==
    LET e == ClaimError(auth, player, round_id)
        payout == ClaimPayout(rounds[round_id], bets[<<round_id, player>>]).val
    IN
    /\ last' = Call("claim", e, IF e = "Ok" THEN payout ELSE 0)
    /\ IF e = "Ok"
       THEN /\ bets' = [bets EXCEPT ![<<round_id, player>>] = ClaimedBet(@)]
            /\ balance' = Transfer(Contract, player, payout)
            /\ paid' = [paid EXCEPT ![<<round_id, player>>] = @ + payout]
            /\ nclaims' = [nclaims EXCEPT ![<<round_id, player>>] = @ + 1]
       ELSE UNCHANGED <<bets, balance, paid, nclaims>>
    /\ UNCHANGED <<cfg, now, rounds, placed, tx>>

\* The value a successful claim returns: claim is declared
\* Result<(), Error> and ends with Ok(()), so Ok carries no value; the
\* payout is reported only in the Claimed event.
ClaimReturn(payout) == None

(* ------------------------------------------------------------------ *)
(* place_prediction and claim, statement by statement                  *)
(* ------------------------------------------------------------------ *)
\* The statements of place_prediction after require_auth, in source order:
\* the guards, the transfer into escrow, the checked addition to the side
\* total, the writes of the round and of the bet.
PlaceSteps == <<"guard", "transfer", "checked_add", "store">>

\* Variant of ClaimSteps: the transfer precedes the write of the claimed flag.
ClaimSteps_TransferFirst == <<"guard", "transfer", "mark">>

\* The statements of claim after require_auth, in source order: the guards
\* and the payout, the write of claimed = true, the transfer to the player.
ClaimSteps == <<"guard", "mark", "transfer">>

Idle == tx.op = "none"

\* The ledger entries an invocation can change before it fails.
Snapshot == [bets |-> bets, balance |-> balance, paid |-> paid, nclaims |-> nclaims]

\* The invocation returns Err or traps: the host restores the ledger.
Abort(e) ==
    /\ last' = Call(tx.op, e, 0)
    /\ tx' = NoTx
    /\ bets' = tx.saved.bets
    /\ balance' = tx.saved.balance
    /\ paid' = tx.saved.paid
    /\ nclaims' = tx.saved.nclaims
    /\ UNCHANGED <<cfg, now, rounds, placed>>

\* The statement is done: on to the next one, or Ok after the last one.
Advance(steps, amount) ==
    IF tx.step = Len(steps)
    THEN tx' = NoTx /\ last' = Call(tx.op, "Ok", amount)
    ELSE tx' = [tx EXCEPT !.step = @ + 1] /\ UNCHANGED last

PlaceCall(player, round_id, direction, wager) ==
    /\ Idle
    /\ tx' = [op |-> "place", step |-> 1, player |-> player, round |-> round_id,
              direction |-> direction, wager |-> wager, saved |-> Snapshot]
    /\ UNCHANGED <<cfg, now, rounds, bets, balance, last, paid, nclaims, placed>>

PlaceStepGuard ==
    /\ tx.op = "place" /\ PlaceSteps[tx.step] = "guard"
    /\ LET e == IF ~require_initialized THEN "NotInitialized"
                ELSE PlaceGuard(tx.player, tx.round, tx.direction, tx.wager)
       IN  IF e # "Ok"
           THEN Abort(e)
           ELSE /\ Advance(PlaceSteps, tx.wager)
                /\ UNCHANGED <<cfg, now, rounds, bets, balance, paid, nclaims, placed>>

PlaceStepTransfer ==
    /\ tx.op = "place" /\ PlaceSteps[tx.step] = "transfer"
    /\ IF ~TransferOk(tx.player, tx.wager)
       THEN Abort("TransferTrap")
       ELSE /\ balance' = Transfer(tx.player, Contract, tx.wager)
            /\ Advance(PlaceSteps, tx.wager)
            /\ UNCHANGED <<cfg, now, rounds, bets, paid, nclaims, placed>>

PlaceStepAdd ==
    /\ tx.op = "place" /\ PlaceSteps[tx.step] = "checked_add"
    /\ IF ~PlaceNewTotal(rounds[tx.round], tx.direction, tx.wager).some
       THEN Abort("Overflow")
       ELSE /\ Advance(PlaceSteps, tx.wager)
            /\ UNCHANGED <<cfg, now, rounds, bets, balance, paid, nclaims, placed>>

PlaceStepStore ==
    /\ tx.op = "place" /\ PlaceSteps[tx.step] = "store"
    /\ rounds' = [rounds EXCEPT ![tx.round] = PlaceRound(@, tx.direction, tx.wager)]
    /\ bets' = [bets EXCEPT ![<<tx.round, tx.player>>] = PlaceBet(tx.direction, tx.wager)]
    /\ placed' = [placed EXCEPT ![tx.round] = @ + tx.wager]
    /\ Advance(PlaceSteps, tx.wager)
    /\ UNCHANGED <<cfg, now, balance, paid, nclaims>>

ClaimCall(player, round_id) ==
    /\ Idle
    /\ tx' = [op |-> "claim", step |-> 1, player |-> player, round |-> round_id,
              direction |-> 0, wager |-> 0, saved |-> Snapshot]
    /\ UNCHANGED <<cfg, now, rounds, bets, balance, last, paid, nclaims, placed>>

ClaimStepGuard ==
    /\ tx.op = "claim" /\ ClaimSteps[tx.step] = "guard"
    /\ LET e == IF ~require_initialized THEN "NotInitialized"
                ELSE ClaimGuard(tx.player, tx.round)
       IN  IF e # "Ok"
           THEN Abort(e)
           ELSE /\ Advance(ClaimSteps, 0)
                /\ UNCHANGED <<cfg, now, rounds, bets, balance, paid, nclaims, placed>>

ClaimStepMark ==
    /\ tx.op = "claim" /\ ClaimSteps[tx.step] = "mark"
    /\ bets' = [bets EXCEPT ![<<tx.round, tx.player>>] = ClaimedBet(@)]
    /\ Advance(ClaimSteps, ClaimPayout(rounds[tx.round], bets[<<tx.round, tx.player>>]).val)
    /\ UNCHANGED <<cfg, now, rounds, balance, paid, nclaims, placed>>

ClaimStepTransfer ==
    /\ tx.op = "claim" /\ ClaimSteps[tx.step] = "transfer"
    /\ LET payout == ClaimPayout(rounds[tx.round], bets[<<tx.round, tx.player>>]).val
       IN  IF ~TransferOk(Contract, payout)
           THEN Abort("TransferTrap")
           ELSE /\ balance' = Transfer(Contract, tx.player, payout)
                /\ paid' = [paid EXCEPT ![<<tx.round, tx.player>>] = @ + payout]
                /\ nclaims' = [nclaims EXCEPT ![<<tx.round, tx.player>>] = @ + 1]
                /\ Advance(ClaimSteps, payout)
                /\ UNCHANGED <<cfg, now, rounds, bets, placed>>

\* A claim issued from inside the token transfer of the claim in progress.
ReenterClaim(player, round_id) ==
    /\ tx.op = "claim" /\ ClaimSteps[tx.step] = "transfer"
    /\ Claim(TRUE, player, round_id)

(* ------------------------------------------------------------------ *)
(* Specification                                                       *)
(* ------------------------------------------------------------------ *)
\* The calls the environment may issue.  Rs: the round ids calls name; Who:
\* the players; Auths: whether the address a call requires has authorized
\* it; Dirs, Ws: directions and wagers passed to place_prediction; Edges:
\* house_edge_bps values passed to init; T: the last ledger timestamp.
NextOver(Rs, Who, Auths, Dirs, Ws, Edges, T) ==
    \/ Tick(T)
    \/ \E auth \in Auths, e \in Edges :
          InitCall(auth, "admin", "oracle", "token", MinWagerChoice, MaxWagerChoice, e)
    \/ \E auth \in Auths, r \in Rs, t \in 0..T, price \in Prices :
          OpenMarket(auth, r, t, price)
    \/ \E auth \in Auths, p \in Who, r \in Rs, d \in Dirs, w \in Ws :
          PlacePrediction(auth, p, r, d, w)
    \/ \E r \in Rs, price \in Prices : SettleRound(r, price)
    \/ \E auth \in Auths, p \in Who, r \in Rs : Claim(auth, p, r)

\* Payout runs: one round, three players, authorized calls with a valid
\* direction and a wager within [min_wager, max_wager].
Next ==
    NextOver({1}, Players, {TRUE}, {DIRECTION_UP, DIRECTION_DOWN}, {200, 300},
             EdgeChoices, MaxTime)

Spec == Init /\ [][Next]_vars

\* Rejection runs: one round, two players, every kind of invalid input.
NextErr ==
    NextOver({1}, {"P1", "P3"}, BOOLEAN, Directions, Wagers, {-250, 500}, MaxTime + 1)

SpecErr == Init /\ [][NextErr]_vars

\* Statement-level runs: one round, two players, authorized calls;
\* place_prediction and claim proceed one statement at a time, the other
\* entry points run between invocations, and a claim may be issued from
\* inside the token transfer of a claim.
NextSteps ==
    \/ Idle /\ Tick(MaxTime)
    \/ Idle /\ \E e \in {0, 500} :
                  InitCall(TRUE, "admin", "oracle", "token", MinWagerChoice, MaxWagerChoice, e)
    \/ Idle /\ \E t \in 0..MaxTime, price \in Prices : OpenMarket(TRUE, 1, t, price)
    \/ Idle /\ \E price \in Prices : SettleRound(1, price)
    \/ \E p \in {"P1", "P3"}, d \in {DIRECTION_UP, DIRECTION_DOWN}, w \in {200, 300} :
          PlaceCall(p, 1, d, w)
    \/ PlaceStepGuard
    \/ PlaceStepTransfer
    \/ PlaceStepAdd
    \/ PlaceStepStore
    \/ \E p \in {"P1", "P3"} : ClaimCall(p, 1)
    \/ ClaimStepGuard
    \/ ClaimStepMark
    \/ ClaimStepTransfer
    \/ \E p \in {"P1", "P3"} : ReenterClaim(p, 1)

SpecSteps == Init /\ [][NextSteps]_vars

\* Configuration runs: init is called, authorized or not, with every
\* combination of two admins, oracles, tokens and wager limits; one player
\* then plays one round.
NextCfg ==
    \/ Tick(MaxTime)
    \/ \E auth \in BOOLEAN, admin \in Admins, oracle_contract \in Oracles,
          token \in Tokens, min_wager \in {MinWagerChoice, SmallBalance},
          max_wager \in {SmallBalance, MaxWagerChoice} :
          InitCall(auth, admin, oracle_contract, token, min_wager, max_wager, 500)
    \/ \E t \in 0..MaxTime, price \in Prices : OpenMarket(TRUE, 1, t, price)
    \/ \E d \in {DIRECTION_UP, DIRECTION_DOWN}, w \in {200, 300} :
          PlacePrediction(TRUE, "P1", 1, d, w)
    \/ \E price \in Prices : SettleRound(1, price)
    \/ Claim(TRUE, "P1", 1)

SpecCfg == Init /\ [][NextCfg]_vars

\* Two-round runs: both rounds are opened at the same price with a
\* close_time of their own; P1 backs Up in round 1 and Down in round 2, P2
\* the opposite, so that equal totals come from different bets.
NextPair ==
    \/ Tick(MaxTime + 1)
    \/ InitCall(TRUE, "admin", "oracle", "token", MinWagerChoice, MaxWagerChoice, 500)
    \/ \E r \in RoundIds, t \in 1..(MaxTime + 1) : OpenMarket(TRUE, r, t, 50000)
    \/ \E r \in RoundIds, w \in {200, 300} :
          PlacePrediction(TRUE, "P1", r,
                          IF r = 1 THEN DIRECTION_UP ELSE DIRECTION_DOWN, w)
    \/ \E r \in RoundIds, w \in {200, 300} :
          PlacePrediction(TRUE, "P2", r,
                          IF r = 1 THEN DIRECTION_DOWN ELSE DIRECTION_UP, w)
    \/ \E r \in RoundIds, price \in Prices : SettleRound(r, price)

SpecPair == Init /\ [][NextPair]_vars

\* Multi-round runs: two rounds closing at the same time are opened, bet
\* on, settled and claimed interleaved; P1 and P2 each hold one bet in each
\* round, on opposite sides.
NextMulti ==
    \/ Tick(MaxTime)
    \/ \E e \in {-250, 500} :
          InitCall(TRUE, "admin", "oracle", "token", MinWagerChoice, MaxWagerChoice, e)
    \/ \E r \in RoundIds : OpenMarket(TRUE, r, MaxTime, 50000)
    \/ \E r \in RoundIds, w \in {200, 300} :
          PlacePrediction(TRUE, "P1", r,
                          IF r = 1 THEN DIRECTION_UP ELSE DIRECTION_DOWN, w)
    \/ \E r \in RoundIds, w \in {200, 300} :
          PlacePrediction(TRUE, "P2", r,
                          IF r = 1 THEN DIRECTION_DOWN ELSE DIRECTION_UP, w)
    \/ \E r \in RoundIds, price \in Prices : SettleRound(r, price)
    \/ \E p \in {"P1", "P2"}, r \in RoundIds : Claim(TRUE, p, r)

SpecMulti == Init /\ [][NextMulti]_vars

\* A stored house_edge_bps large enough for total_pool * house_edge_bps to
\* leave the integer range.
HugeEdge == 5000000

\* Settlement runs: one round and two players; the stored edge is either
\* ordinary or huge, and every settle_round call that is made reads some
\* feed price.
NextLive ==
    \/ Tick(MaxTime)
    \/ \E e \in {500, HugeEdge} :
          InitCall(TRUE, "admin", "oracle", "token", MinWagerChoice, MaxWagerChoice, e)
    \/ \E t \in 0..MaxTime, price \in Prices : OpenMarket(TRUE, 1, t, price)
    \/ \E p \in {"P1", "P2"}, d \in {DIRECTION_UP, DIRECTION_DOWN}, w \in {200, 300} :
          PlacePrediction(TRUE, p, 1, d, w)
    \/ \E price \in Prices : SettleRound(1, price)
    \/ \E p \in {"P1", "P2"} : Claim(TRUE, p, 1)

\* Ledger time keeps advancing, and settle_round, which anyone may call,
\* keeps being called.
SpecLive ==
    /\ Init
    /\ [][NextLive]_vars
    /\ WF_vars(Tick(MaxTime))
    /\ WF_vars(\E price \in Prices : SettleRound(1, price))

\* High-edge runs: one round, three players; the stored edge takes all or
\* all but one ten-thousandth of the pool, so that winners' shares floor
\* to zero.
NextHigh ==
    NextOver({1}, Players, {TRUE}, {DIRECTION_UP, DIRECTION_DOWN}, {200, 300},
             {9999, 10000}, MaxTime)

SpecHigh == Init /\ [][NextHigh]_vars

(* ------------------------------------------------------------------ *)
(* Helpers of the properties                                           *)
(* ------------------------------------------------------------------ *)
RECURSIVE SumOver(_, _)
\* Sum of f[x] over the finite set S.
SumOver(f, S) ==
    IF S = {} THEN 0
    ELSE LET x == CHOOSE y \in S : TRUE
         IN  f[x] + SumOver(f, S \ {x})

\* Tokens paid so far by claims on round r.
SumPaid(r) == SumOver(paid, {r} \X Players)

\* The stored bets of round r on side d.
BetsOn(r, d) == {k \in {r} \X Players : bets[k].exists /\ bets[k].direction = d}

\* Sum of the wagers of the stored bets of round r on side d.
SumWagers(r, d) == SumOver([k \in RoundIds \X Players |-> bets[k].wager], BetsOn(r, d))

\* Round r is settled with a decisive outcome.
Decisive(r) == rounds[r].exists /\ rounds[r].settled /\ ~rounds[r].is_push

\* Round r is settled as a push.
Pushed(r) == rounds[r].exists /\ rounds[r].settled /\ rounds[r].is_push

\* Player p holds a bet on the winning (losing) side of the decisive round r.
Winner(r, p) ==
    Decisive(r) /\ bets[<<r, p>>].exists /\ bets[<<r, p>>].direction = rounds[r].outcome

Loser(r, p) ==
    Decisive(r) /\ bets[<<r, p>>].exists /\ bets[<<r, p>>].direction # rounds[r].outcome

\* floor(net_pool * wager / winning_total) of p's bet in round r.
Share(r, p) ==
    IF rounds[r].winning_total > 0
    THEN (rounds[r].net_pool * bets[<<r, p>>].wager) \div rounds[r].winning_total
    ELSE 0

EdgeInRange == cfg.house_edge_bps >= 0 /\ cfg.house_edge_bps <= BASIS_POINTS_DIVISOR

(* ------------------------------------------------------------------ *)
(* Properties                                                          *)
(* ------------------------------------------------------------------ *)

\* C1: for every (round, participant) at most one claim ever succeeds; once
\* one has, every later authorized claim of that participant on that round
\* returns AlreadyClaimed and moves no tokens.
C1_ClaimAtMostOnce ==
    /\ [](\A k \in RoundIds \X Players : nclaims[k] <= 1)
    /\ [][\A p \in Players, r \in RoundIds :
            (last'.op = "claim" /\ nclaims[<<r, p>>] >= 1 /\ Claim(TRUE, p, r))
            => /\ last'.result = "AlreadyClaimed"
               /\ last'.amount = 0
               /\ balance' = balance
               /\ paid' = paid]_vars

C1_Witness ==
    /\ last.op = "claim"
    /\ last.result = "AlreadyClaimed"
    /\ \E k \in RoundIds \X Players : nclaims[k] = 1 /\ paid[k] > 0

\* C2: in a decisive round under house_edge_bps in [0, 10000], the tokens
\* paid to the winners never exceed net_pool, no payout is negative, and the
\* floored shares of all winners together do not exceed net_pool.
C2_NoOverpayment ==
    \A r \in RoundIds :
        (Decisive(r) /\ EdgeInRange)
        => /\ SumPaid(r) <= rounds[r].net_pool
           /\ \A p \in Players : paid[<<r, p>>] >= 0
           /\ (last.op = "claim" => last.amount >= 0)
           /\ SumOver([k \in RoundIds \X Players |-> Share(k[1], k[2])],
                      {k \in {r} \X Players : Winner(k[1], k[2])}) <= rounds[r].net_pool

\* Two winners have been paid and rounding dust is left of net_pool.
C2_Witness ==
    \E r \in RoundIds :
        /\ Decisive(r) /\ EdgeInRange
        /\ Cardinality({p \in Players : Winner(r, p) /\ paid[<<r, p>>] > 0}) >= 2
        /\ \A p \in Players : Winner(r, p) => bets[<<r, p>>].claimed
        /\ SumPaid(r) < rounds[r].net_pool

\* C3: in a push round a successful claim pays exactly the claimant's wager,
\* and once every bet of the round is claimed the refunds add up to
\* total_up + total_down.
C3_PushRefund ==
    /\ [](\A r \in RoundIds : Pushed(r) =>
            /\ \A p \in Players :
                  bets[<<r, p>>].claimed => paid[<<r, p>>] = bets[<<r, p>>].wager
            /\ (\A p \in Players : bets[<<r, p>>].exists => bets[<<r, p>>].claimed)
               => SumPaid(r) = rounds[r].total_up + rounds[r].total_down)
    /\ [][\A p \in Players, r \in RoundIds :
            (last'.op = "claim" /\ last'.result = "Ok" /\ Pushed(r) /\ Claim(TRUE, p, r))
            => /\ last'.amount = bets[<<r, p>>].wager
               /\ balance'[p] = balance[p] + bets[<<r, p>>].wager
               /\ balance'[Contract] = balance[Contract] - bets[<<r, p>>].wager]_vars

\* A one-sided push with two bets, both refunded.
C3_Witness ==
    \E r \in RoundIds :
        /\ Pushed(r)
        /\ rounds[r].outcome # OUTCOME_FLAT
        /\ Cardinality({p \in Players : bets[<<r, p>>].exists}) >= 2
        /\ \A p \in Players : bets[<<r, p>>].exists => bets[<<r, p>>].claimed
        /\ SumPaid(r) = rounds[r].total_up + rounds[r].total_down
        /\ SumPaid(r) > 0

\* C4: in a decisive round a successful claim of a bet on the winning side
\* moves exactly floor(net_pool * wager / winning_total) from the escrow to
\* the claimant and marks the bet claimed; with Up 300, Up 200, Down 500 at
\* 500 bps and Up winning the two shares are 570 and 380.
C4_ExampleRound ==
    SettledRound([NewRound(50000, 1) EXCEPT !.total_up = 500, !.total_down = 500], 55000,
                 SettleCompute(50000, 55000, 500, 500, 500).val)

C4_WinnerShare ==
    /\ [](/\ ClaimPayout(C4_ExampleRound, PlaceBet(DIRECTION_UP, 300)) = Some(570)
          /\ ClaimPayout(C4_ExampleRound, PlaceBet(DIRECTION_UP, 200)) = Some(380)
          /\ C4_ExampleRound.net_pool = 950)
    /\ [][\A p \in Players, r \in RoundIds :
            (last'.op = "claim" /\ last'.result = "Ok" /\ Winner(r, p) /\ Claim(TRUE, p, r))
            => /\ last'.amount = Share(r, p)
               /\ balance'[p] = balance[p] + Share(r, p)
               /\ balance'[Contract] = balance[Contract] - Share(r, p)
               /\ bets'[<<r, p>>].claimed
               /\ ~bets[<<r, p>>].claimed]_vars

\* A winner has been paid a share whose exact quotient is not whole.
C4_Witness ==
    \E r \in RoundIds, p \in Players :
        /\ Winner(r, p) /\ bets[<<r, p>>].claimed
        /\ last.op = "claim" /\ last.result = "Ok" /\ last.amount = Share(r, p)
        /\ paid[<<r, p>>] = Share(r, p)
        /\ (rounds[r].net_pool * bets[<<r, p>>].wager) % rounds[r].winning_total # 0

\* C5: in a decisive round an authorized claim of a bet on the losing side
\* returns NoPayout and changes nothing; a losing bet is never marked claimed
\* and is never paid.
C5_LoserNoPayout ==
    /\ [](\A p \in Players, r \in RoundIds :
            Loser(r, p) => ~bets[<<r, p>>].claimed /\ paid[<<r, p>>] = 0)
    /\ [][\A p \in Players, r \in RoundIds :
            (last'.op = "claim" /\ Loser(r, p) /\ Claim(TRUE, p, r))
            => /\ last'.result = "NoPayout"
               /\ last'.amount = 0
               /\ UNCHANGED <<rounds, bets, balance, paid, nclaims>>]_vars

\* A claim returned NoPayout in a round whose winners all have a positive
\* share, so the claimant was a loser.
C5_Witness ==
    /\ last.op = "claim" /\ last.result = "NoPayout"
    /\ \E r \in RoundIds :
          /\ Decisive(r)
          /\ \E p \in Players : Loser(r, p)
          /\ \A p \in Players : Winner(r, p) => Share(r, p) > 0

\* C6: a successful settle makes the round a push exactly if the outcome is
\* Flat or one side has no wagers; a round with wagers on both sides and a
\* close price different from the open price is never a push.
C6_PushRule ==
    /\ [](\A r \in RoundIds :
            (rounds[r].exists /\ rounds[r].settled)
            => /\ rounds[r].is_push <=> \/ rounds[r].outcome = OUTCOME_FLAT
                                        \/ rounds[r].total_up = 0
                                        \/ rounds[r].total_down = 0
               /\ (/\ rounds[r].total_up > 0
                   /\ rounds[r].total_down > 0
                   /\ rounds[r].close_price # rounds[r].open_price)
                  => ~rounds[r].is_push)
    /\ [][\A r \in RoundIds, price \in Prices :
            (last'.op = "settle" /\ last'.result = "Ok" /\ SettleRound(r, price))
            => (rounds'[r].is_push <=> \/ price = rounds[r].open_price
                                       \/ rounds[r].total_up = 0
                                       \/ rounds[r].total_down = 0)]_vars

\* A round with wagers on one side only was settled at a changed price.
C6_Witness ==
    /\ last.op = "settle" /\ last.result = "Ok"
    /\ \E r \in RoundIds :
          /\ Pushed(r)
          /\ rounds[r].close_price # rounds[r].open_price
          /\ rounds[r].total_up > 0
          /\ rounds[r].total_down = 0

\* C7: a successful settle stores net_pool = 0 and winning_total = 0 for a
\* push; otherwise net_pool = total_pool - floor(total_pool * bps / 10000)
\* over total_pool = total_up + total_down, and winning_total is the total
\* of the side named by the outcome.
C7_Pools ==
    [][\A r \in RoundIds, price \in Prices :
          (last'.op = "settle" /\ last'.result = "Ok" /\ SettleRound(r, price))
          => LET pool == rounds[r].total_up + rounds[r].total_down IN
             IF rounds'[r].is_push
             THEN rounds'[r].net_pool = 0 /\ rounds'[r].winning_total = 0
             ELSE /\ rounds'[r].net_pool =
                        pool - (pool * cfg.house_edge_bps) \div BASIS_POINTS_DIVISOR
                  /\ rounds'[r].winning_total =
                        IF rounds'[r].outcome = OUTCOME_UP
                        THEN rounds[r].total_up ELSE rounds[r].total_down]_vars

\* What settle_round stores under every house_edge_bps init accepts: the
\* quotient total_pool * bps / 10000 is truncated toward zero, which is the
\* floor only when the product is not negative.
C7_TruncatedFee(pool) ==
    IF pool * cfg.house_edge_bps >= 0
    THEN (pool * cfg.house_edge_bps) \div BASIS_POINTS_DIVISOR
    ELSE -((-(pool * cfg.house_edge_bps)) \div BASIS_POINTS_DIVISOR)

C7_PoolsTruncated ==
    [][\A r \in RoundIds, price \in Prices :
          (last'.op = "settle" /\ last'.result = "Ok" /\ SettleRound(r, price))
          => LET pool == rounds[r].total_up + rounds[r].total_down IN
             IF rounds'[r].is_push
             THEN rounds'[r].net_pool = 0 /\ rounds'[r].winning_total = 0
             ELSE /\ rounds'[r].net_pool = pool - C7_TruncatedFee(pool)
                  /\ rounds'[r].winning_total =
                        IF rounds'[r].outcome = OUTCOME_UP
                        THEN rounds[r].total_up ELSE rounds[r].total_down]_vars

\* C8: a successful settle stores the price the feed returns as close_price
\* and the outcome Up, Down or Flat as that price is above, below or equal
\* to the open_price stored by open_market.
C8_Outcome ==
    /\ [](\A r \in RoundIds :
            (rounds[r].exists /\ rounds[r].settled)
            => rounds[r].outcome =
                  IF rounds[r].close_price > rounds[r].open_price THEN OUTCOME_UP
                  ELSE IF rounds[r].close_price < rounds[r].open_price THEN OUTCOME_DOWN
                  ELSE OUTCOME_FLAT)
    /\ [][\A r \in RoundIds, price \in Prices :
            /\ (last'.op = "settle" /\ last'.result = "Ok" /\ SettleRound(r, price))
               => /\ rounds'[r].close_price = price
                  /\ rounds'[r].open_price = rounds[r].open_price
            /\ (/\ last'.op = "open" /\ last'.result = "Ok"
                /\ OpenMarket(TRUE, r, rounds'[r].close_time, price))
               => rounds'[r].open_price = price]_vars

\* A round opened at 50000 was settled Flat at 50000.
C8_Witness ==
    /\ last.op = "settle" /\ last.result = "Ok"
    /\ \E r \in RoundIds :
          /\ rounds[r].settled
          /\ rounds[r].outcome = OUTCOME_FLAT
          /\ rounds[r].close_price = rounds[r].open_price
          /\ rounds[r].total_up > 0 /\ rounds[r].total_down > 0

\* C9: in every state total_up and total_down of a round are the sums of
\* the wagers of its stored Up and Down bets, and together they are the sum
\* of all wagers successfully placed on the round.
C9_Totals ==
    \A r \in RoundIds :
        /\ rounds[r].total_up = SumWagers(r, DIRECTION_UP)
        /\ rounds[r].total_down = SumWagers(r, DIRECTION_DOWN)
        /\ rounds[r].total_up + rounds[r].total_down = placed[r]

\* Two Up bets and one Down bet are stored.
C9_Witness ==
    \E r \in RoundIds :
        /\ Cardinality(BetsOn(r, DIRECTION_UP)) = 2
        /\ Cardinality(BetsOn(r, DIRECTION_DOWN)) = 1
        /\ rounds[r].total_up = 500
        /\ rounds[r].total_down = 200

\* C10: a place_prediction call with a wager below min_wager or above
\* max_wager, at a time not before close_time, or by a player who already
\* has a bet in the round is rejected and leaves the round totals, the bets
\* and all balances unchanged.
C10_MustReject(p, r, w) ==
    /\ cfg.initialized
    /\ \/ w < cfg.min_wager
       \/ w > cfg.max_wager
       \/ rounds[r].exists /\ now >= rounds[r].close_time
       \/ bets[<<r, p>>].exists

C10_RejectedPlace ==
    /\ [](\A auth \in BOOLEAN, p \in Players, r \in RoundIds, d \in Directions,
             w \in Wagers :
            C10_MustReject(p, r, w) => PlaceError(auth, p, r, d, w) # "Ok")
    /\ [][(last'.op = "place" /\ last'.result # "Ok")
          => /\ last'.amount = 0
             /\ UNCHANGED <<rounds, bets, balance, placed>>]_vars
    /\ [][(last'.op = "place" /\ last'.result = "Ok" /\ now' = now)
          => \A p \in Players, r \in RoundIds, d \in Directions, w \in Wagers :
                (/\ last'.amount = w
                 /\ PlacePrediction(TRUE, p, r, d, w))
                => ~C10_MustReject(p, r, w)]_vars

\* A wager was refused at close_time itself, with wagers already escrowed.
C10_Witness ==
    /\ last.op = "place" /\ last.result = "RoundClosed"
    /\ \E r \in RoundIds :
          /\ rounds[r].exists /\ ~rounds[r].settled
          /\ now = rounds[r].close_time
          /\ rounds[r].total_up + rounds[r].total_down > 0
    /\ balance[Contract] > 0

\* A direction and a wager place_prediction accepts, on a round that still
\* takes wagers: the guards before the bet-exists check pass.
C11_Acceptable(r, d, w) ==
    /\ cfg.initialized
    /\ d \in {DIRECTION_UP, DIRECTION_DOWN}
    /\ w > 0 /\ w >= cfg.min_wager /\ w <= cfg.max_wager
    /\ rounds[r].exists /\ ~rounds[r].settled /\ now < rounds[r].close_time

\* C11: a round holds at most one bet per participant: once p has a bet in
\* round r no place_prediction of p on r succeeds, and an authorized one
\* with an acceptable direction and wager, the same as the stored ones or
\* different, returns BetAlreadyPlaced; the wagers successfully placed on r
\* are exactly the wagers of its stored bets; a stored bet is never
\* deleted and its direction and wager never change.
C11_OneBetPerPlayer ==
    /\ [](\A p \in Players, r \in RoundIds :
            bets[<<r, p>>].exists
            => \A d \in Directions, w \in Wagers :
                  LET e == PlaceError(TRUE, p, r, d, w)
                  IN  /\ e # "Ok"
                      /\ PlaceError(FALSE, p, r, d, w) # "Ok"
                      /\ C11_Acceptable(r, d, w) => e = "BetAlreadyPlaced")
    /\ [](\A r \in RoundIds :
            placed[r] = SumOver([k \in RoundIds \X Players |->
                                    IF bets[k].exists THEN bets[k].wager ELSE 0],
                                {r} \X Players))
    /\ [][\A k \in RoundIds \X Players :
            bets[k].exists
            => /\ bets'[k].exists
               /\ bets'[k].direction = bets[k].direction
               /\ bets'[k].wager = bets[k].wager]_vars

\* A player holding a bet was refused a second one while the round was open.
C11_Witness ==
    /\ last.op = "place" /\ last.result = "BetAlreadyPlaced"
    /\ \E p \in Players, r \in RoundIds :
          /\ bets[<<r, p>>].exists
          /\ C11_Acceptable(r, 1 - bets[<<r, p>>].direction, 500 - bets[<<r, p>>].wager)
          /\ balance[Contract] = placed[r]

\* C12: a settled round stays settled and no later step changes any field of
\* its record (close_price, outcome, is_push, net_pool, winning_total,
\* total_up, total_down, open_price, close_time); settle_round on a settled
\* round returns AlreadySettled whatever price the feed now reports.
C12_SettledFrozen ==
    /\ [][\A r \in RoundIds :
            (rounds[r].exists /\ rounds[r].settled) => rounds'[r] = rounds[r]]_vars
    /\ [](\A r \in RoundIds, price \in Prices :
            (rounds[r].exists /\ rounds[r].settled)
            => SettleError(r, price) = "AlreadySettled")

\* A second settle_round was refused on a round settled Up or Down, whose
\* stored close_price differs from a price the feed can report.
C12_Witness ==
    /\ last.op = "settle" /\ last.result = "AlreadySettled"
    /\ \E r \in RoundIds :
          /\ Decisive(r)
          /\ rounds[r].close_price # rounds[r].open_price
          /\ rounds[r].net_pool > 0

\* C13: place_prediction can succeed only while now < close_time and
\* settle_round only once now >= close_time, so in no state can both
\* succeed on the same round; at now = close_time an authorized
\* place_prediction with an acceptable direction and wager on an unsettled
\* round returns RoundClosed and settle_round does not return
\* RoundNotClosed.
C13_PlaceBeforeSettleAfter ==
    \A r \in RoundIds :
        /\ \A auth \in BOOLEAN, p \in Players, d \in Directions, w \in Wagers :
              /\ PlaceError(auth, p, r, d, w) = "Ok" => now < rounds[r].close_time
              /\ \A price \in Prices :
                    ~(/\ PlaceError(auth, p, r, d, w) = "Ok"
                      /\ SettleError(r, price) = "Ok")
        /\ \A price \in Prices :
              SettleError(r, price) = "Ok" => now >= rounds[r].close_time
        /\ (/\ cfg.initialized /\ rounds[r].exists /\ ~rounds[r].settled
            /\ now = rounds[r].close_time)
           => /\ \A p \in Players, d \in {DIRECTION_UP, DIRECTION_DOWN}, w \in Wagers :
                    (w > 0 /\ w >= cfg.min_wager /\ w <= cfg.max_wager)
                    => PlaceError(TRUE, p, r, d, w) = "RoundClosed"
              /\ \A price \in Prices : SettleError(r, price) # "RoundNotClosed"

\* At close_time a wager was refused with RoundClosed on a round that holds
\* wagers and that settle_round accepts.
C13_Witness ==
    /\ last.op = "place" /\ last.result = "RoundClosed"
    /\ \E r \in RoundIds :
          /\ rounds[r].exists /\ ~rounds[r].settled
          /\ now = rounds[r].close_time
          /\ rounds[r].total_up > 0
          /\ \E price \in Prices : SettleError(r, price) = "Ok"

\* C14: total_up and total_down of a round change only in a step of a
\* successful place_prediction, they never decrease, and they never change
\* once the round is settled; an authorized place_prediction with an
\* acceptable direction and wager on a settled round returns AlreadySettled,
\* and a call so refused moves no tokens and stores no bet.
C14_TotalsFrame ==
    /\ [][\A r \in RoundIds :
            /\ rounds'[r].total_up >= rounds[r].total_up
            /\ rounds'[r].total_down >= rounds[r].total_down
            /\ (\/ rounds'[r].total_up # rounds[r].total_up
                \/ rounds'[r].total_down # rounds[r].total_down)
               => /\ last'.op = "place" /\ last'.result = "Ok"
                  /\ ~rounds[r].settled]_vars
    /\ [](\A r \in RoundIds, p \in Players, d \in Directions, w \in Wagers :
            (cfg.initialized /\ rounds[r].exists /\ rounds[r].settled)
            => /\ \A auth \in BOOLEAN : PlaceError(auth, p, r, d, w) # "Ok"
               /\ (/\ d \in {DIRECTION_UP, DIRECTION_DOWN}
                   /\ w > 0 /\ w >= cfg.min_wager /\ w <= cfg.max_wager)
                  => PlaceError(TRUE, p, r, d, w) = "AlreadySettled")
    /\ [][(last'.op = "place" /\ last'.result = "AlreadySettled")
          => /\ last'.amount = 0
             /\ balance' = balance /\ bets' = bets /\ rounds' = rounds]_vars

\* A wager was refused on a settled round that holds wagers on both sides.
C14_Witness ==
    /\ last.op = "place" /\ last.result = "AlreadySettled"
    /\ \E r \in RoundIds :
          /\ rounds[r].settled
          /\ rounds[r].total_up > 0 /\ rounds[r].total_down > 0
          /\ balance[Contract] = rounds[r].total_up + rounds[r].total_down

\* C15: a bet is marked claimed only in a settled round; an authorized claim
\* on an existing, unsettled round returns NotSettled, pays nothing and
\* leaves every claimed flag as it was.
C15_ClaimedImpliesSettled ==
    /\ [](\A k \in RoundIds \X Players :
            bets[k].claimed => (bets[k].exists /\ rounds[k[1]].settled))
    /\ [](\A p \in Players, r \in RoundIds :
            (cfg.initialized /\ rounds[r].exists /\ ~rounds[r].settled)
            => ClaimError(TRUE, p, r) = "NotSettled")
    /\ [][(last'.op = "claim" /\ last'.result = "NotSettled")
          => /\ last'.amount = 0
             /\ bets' = bets /\ balance' = balance /\ paid' = paid]_vars

\* A claim was refused on an unsettled round past its close_time that holds
\* wagers on both sides, none of them claimed.
C15_Witness ==
    /\ last.op = "claim" /\ last.result = "NotSettled"
    /\ \E r \in RoundIds :
          /\ rounds[r].exists /\ ~rounds[r].settled
          /\ now >= rounds[r].close_time
          /\ BetsOn(r, DIRECTION_UP) # {} /\ BetsOn(r, DIRECTION_DOWN) # {}
          /\ \A k \in {r} \X Players : ~bets[k].claimed

\* C16: an open_market call that fails creates no round and changes no
\* existing round, bet or balance; once the contract is initialized an
\* authorized open_market returns InvalidCloseTime when close_time <= now,
\* otherwise RoundAlreadyExists when round_id is registered, otherwise
\* InvalidPrice when the feed reports a price <= 0.
C16_FailedOpen ==
    /\ [][(last'.op = "open" /\ last'.result # "Ok")
          => UNCHANGED <<rounds, bets, balance, placed, cfg>>]_vars
    /\ [](\A r \in RoundIds, t \in 0..(MaxTime + 1), price \in Prices :
            cfg.initialized
            => /\ t <= now => OpenError(TRUE, r, t, price) = "InvalidCloseTime"
               /\ (t > now /\ rounds[r].exists)
                  => OpenError(TRUE, r, t, price) = "RoundAlreadyExists"
               /\ (t > now /\ ~rounds[r].exists /\ price <= 0)
                  => OpenError(TRUE, r, t, price) = "InvalidPrice")

\* open_market was refused for a registered round_id whose round holds a
\* wager, at a time when a later close_time was still available.
C16_Witness ==
    /\ last.op = "open" /\ last.result = "RoundAlreadyExists"
    /\ \E r \in RoundIds :
          /\ rounds[r].exists
          /\ rounds[r].total_up + rounds[r].total_down > 0
          /\ now < MaxTime + 1

\* C17: a round comes into existence only in a successful open_market step,
\* with total_up = total_down = 0, settled = false, an open_price > 0 and a
\* close_time strictly greater than the ledger time of that step; an
\* existing round keeps its open_price and close_time, so every round has
\* open_price > 0 and close_time > 0.
C17_FreshRound ==
    /\ [][\A r \in RoundIds :
            /\ (~rounds[r].exists /\ rounds'[r].exists)
               => /\ last'.op = "open" /\ last'.result = "Ok"
                  /\ rounds'[r].total_up = 0 /\ rounds'[r].total_down = 0
                  /\ ~rounds'[r].settled
                  /\ rounds'[r].open_price > 0
                  /\ rounds'[r].close_time > now
                  /\ now' = now
            /\ rounds[r].exists
               => /\ rounds'[r].exists
                  /\ rounds'[r].open_price = rounds[r].open_price
                  /\ rounds'[r].close_time = rounds[r].close_time]_vars
    /\ [](\A r \in RoundIds :
            rounds[r].exists => (rounds[r].open_price > 0 /\ rounds[r].close_time > 0))

\* open_market has just created an empty round that closes after now.
C17_Witness ==
    /\ last.op = "open" /\ last.result = "Ok"
    /\ \E r \in RoundIds :
          /\ rounds[r].exists /\ ~rounds[r].settled
          /\ rounds[r].total_up = 0 /\ rounds[r].total_down = 0
          /\ rounds[r].open_price = 50000
          /\ rounds[r].close_time > now

\* C18: a successful place_prediction stores exactly one new bet; when it
\* is the call of player p on round r with direction d and wager w, it
\* moves exactly w tokens from p to the escrow, adds exactly w to the total
\* of side d and leaves the other total unchanged, and the bet it stores
\* under (r, p) is (d, w, claimed = false); no other bet and no other
\* balance changes.
C18_PlaceEffect ==
    /\ [][(last'.op = "place" /\ last'.result = "Ok" /\ now' = now)
          => /\ last'.amount > 0
             /\ Cardinality({k \in RoundIds \X Players :
                                ~bets[k].exists /\ bets'[k].exists}) = 1]_vars
    /\ [][(last'.op = "place" /\ last'.result = "Ok" /\ now' = now)
          => \A p \in Players, r \in RoundIds, d \in {DIRECTION_UP, DIRECTION_DOWN},
                w \in Wagers :
            (/\ last'.amount = w
             /\ ~bets[<<r, p>>].exists /\ bets'[<<r, p>>].exists
             /\ PlacePrediction(TRUE, p, r, d, w))
            => /\ balance'[p] = balance[p] - w
               /\ balance'[Contract] = balance[Contract] + w
               /\ \A q \in Players \ {p} : balance'[q] = balance[q]
               /\ rounds'[r].total_up =
                     rounds[r].total_up + (IF d = DIRECTION_UP THEN w ELSE 0)
               /\ rounds'[r].total_down =
                     rounds[r].total_down + (IF d = DIRECTION_DOWN THEN w ELSE 0)
               /\ bets'[<<r, p>>] =
                     [exists |-> TRUE, direction |-> d, wager |-> w, claimed |-> FALSE]
               /\ \A k \in (RoundIds \X Players) \ {<<r, p>>} : bets'[k] = bets[k]]_vars

\* A Down wager of 300 has just been escrowed on top of an Up wager of 200.
C18_Witness ==
    /\ last.op = "place" /\ last.result = "Ok" /\ last.amount = 300
    /\ \E r \in RoundIds :
          /\ rounds[r].total_up = 200 /\ rounds[r].total_down = 300
          /\ Cardinality(BetsOn(r, DIRECTION_DOWN)) = 1
    /\ balance[Contract] = 500

\* Tokens of the invocation in progress have reached, or left, the escrow.
FundsMoved == balance[Contract] # tx.saved.balance[Contract]

\* C19: whenever place_prediction is about to evaluate a check that can
\* return an error (the guards, the checked addition that returns
\* Overflow), it has not yet transferred the wager into escrow nor written
\* the round or the bet.
C19_ChecksBeforeTransfer ==
    (tx.op = "place" /\ PlaceSteps[tx.step] \in {"guard", "checked_add"})
    => /\ ~FundsMoved
       /\ bets = tx.saved.bets

\* While place_prediction runs, the round and the bet are written only
\* after its last check, but the checked addition is evaluated with the
\* wager already in escrow.
C19_ChecksBeforeWrites ==
    (tx.op = "place" /\ PlaceSteps[tx.step] \in {"guard", "checked_add"})
    => /\ bets = tx.saved.bets
       /\ placed[tx.round] = rounds[tx.round].total_up + rounds[tx.round].total_down
       /\ (PlaceSteps[tx.step] = "guard" => ~FundsMoved)

\* C20: when claim reaches its token transfer the bet is already stored with
\* claimed = true, so a claim of the same player on the same round issued
\* from inside the transfer returns AlreadyClaimed and moves no tokens; no
\* bet is paid twice.
C20_MarkBeforeTransfer ==
    /\ []((tx.op = "claim" /\ ClaimSteps[tx.step] = "transfer")
          => /\ bets[<<tx.round, tx.player>>].claimed
             /\ ClaimPayout(rounds[tx.round], bets[<<tx.round, tx.player>>]).val > 0
             /\ ClaimError(TRUE, tx.player, tx.round) = "AlreadyClaimed")
    /\ [](\A k \in RoundIds \X Players : nclaims[k] <= 1)
    /\ [][(/\ tx.op = "claim" /\ tx'.op = "claim"
           /\ last'.op = "claim" /\ ReenterClaim(tx.player, tx.round))
          => /\ last'.result = "AlreadyClaimed"
             /\ balance' = balance /\ bets' = bets /\ paid' = paid]_vars

\* A claim issued from inside the transfer of a winner's claim was refused
\* with AlreadyClaimed, before the payout left the escrow.
C20_Witness ==
    /\ tx.op = "claim" /\ ClaimSteps[tx.step] = "transfer"
    /\ last.op = "claim" /\ last.result = "AlreadyClaimed"
    /\ Winner(tx.round, tx.player)
    /\ nclaims[<<tx.round, tx.player>>] = 0
    /\ ~FundsMoved

\* C21: a place_prediction whose wager exceeds the player's token balance
\* never succeeds; when its guards pass it ends in the trap of the token
\* transfer, and the call is undone as a whole: no bet is stored, total_up
\* and total_down keep their values and no balance changes.
C21_InsufficientBalance ==
    /\ [](\A p \in Players, r \in RoundIds, d \in Directions, w \in Wagers :
            balance[p] < w
            => /\ \A auth \in BOOLEAN : PlaceError(auth, p, r, d, w) # "Ok"
               /\ (cfg.initialized /\ PlaceGuard(p, r, d, w) = "Ok")
                  => PlaceError(TRUE, p, r, d, w) = "TransferTrap")
    /\ [](\A a \in Players \cup {Contract} : balance[a] >= 0)
    /\ [][(last'.op = "place" /\ last'.result = "TransferTrap")
          => /\ last'.amount = 0
             /\ UNCHANGED <<rounds, bets, balance, placed>>]_vars

\* The wager of a player holding too few tokens was refused on an open round
\* on which another player's wager is escrowed.
C21_Witness ==
    /\ last.op = "place" /\ last.result = "TransferTrap"
    /\ balance["P3"] = SmallBalance
    /\ \E r \in RoundIds :
          /\ rounds[r].exists /\ ~rounds[r].settled /\ now < rounds[r].close_time
          /\ ~bets[<<r, "P3">>].exists
          /\ rounds[r].total_up + rounds[r].total_down > 0
          /\ balance[Contract] = rounds[r].total_up + rounds[r].total_down

\* C22: the stored configuration always has house_edge_bps within
\* [0, 10000]: no init with a value outside that range succeeds.
C22_EdgeValidated ==
    /\ cfg.initialized => EdgeInRange
    /\ (last.op = "init" /\ last.result = "Ok") => EdgeInRange

\* C23: init succeeds at most once: it succeeds only on an uninitialized
\* contract, once the contract is initialized every init returns
\* AlreadyInitialized, and no step changes the stored admin, oracle, token,
\* min_wager, max_wager or house_edge_bps.
C23_InitOnce ==
    /\ [](cfg.initialized => \A auth \in BOOLEAN : InitError(auth) = "AlreadyInitialized")
    /\ [][cfg.initialized => cfg' = cfg]_vars
    /\ [][(last'.op = "init" /\ last'.result = "Ok" /\ now' = now)
          => ~cfg.initialized]_vars

\* A second init was refused after a round was played to the end under the
\* configuration stored by the first.
C23_Witness ==
    /\ last.op = "init" /\ last.result = "AlreadyInitialized"
    /\ cfg.initialized
    /\ cfg.admin = "admin2" /\ cfg.token = "token" /\ cfg.house_edge_bps = 500
    /\ \E r \in RoundIds : rounds[r].settled /\ nclaims[<<r, "P1">>] = 1

\* The four values settle_round computes, as stored in round r.
SettleOutputs(r) ==
    [outcome |-> rounds[r].outcome, is_push |-> rounds[r].is_push,
     net_pool |-> rounds[r].net_pool, winning_total |-> rounds[r].winning_total]

\* C24: what settle_round computes is a function of (open_price,
\* close_price, total_up, total_down, house_edge_bps) alone: two settled
\* rounds that agree on these values (house_edge_bps is the one stored
\* configuration) hold the same outcome, is_push, net_pool and
\* winning_total, whatever their round id, close_time and individual bets;
\* and every settled round holds the value of that function.
C24_SettlePure ==
    /\ \A r1 \in RoundIds, r2 \in RoundIds :
          (/\ rounds[r1].settled /\ rounds[r2].settled
           /\ rounds[r1].open_price = rounds[r2].open_price
           /\ rounds[r1].close_price = rounds[r2].close_price
           /\ rounds[r1].total_up = rounds[r2].total_up
           /\ rounds[r1].total_down = rounds[r2].total_down)
          => SettleOutputs(r1) = SettleOutputs(r2)
    /\ \A r \in RoundIds :
          rounds[r].settled
          => SettleOutputs(r) =
                SettleCompute(rounds[r].open_price, rounds[r].close_price,
                              rounds[r].total_up, rounds[r].total_down,
                              cfg.house_edge_bps).val

\* Both rounds are settled Up on totals (200, 300) that P1 and P2 built
\* with swapped wagers, and the rounds differ in close_time.
C24_Witness ==
    /\ rounds[1].settled /\ rounds[2].settled
    /\ rounds[1].close_price = 55000 /\ rounds[2].close_price = 55000
    /\ rounds[1].total_up = 200 /\ rounds[2].total_up = 200
    /\ rounds[1].total_down = 300 /\ rounds[2].total_down = 300
    /\ bets[<<1, "P1">>].wager = 200 /\ bets[<<2, "P1">>].wager = 300
    /\ rounds[1].close_time # rounds[2].close_time
    /\ rounds[1].net_pool = 475

\* C25: settle_round takes no caller and asks for no authorization: on an
\* initialized contract it succeeds on every existing, unsettled round whose
\* close_time has passed, whatever price the feed reports, and the round it
\* stores is determined by the stored round, the feed price and the stored
\* house_edge_bps; it changes no bet, balance or configuration.
C25_SettleByAnyone ==
    /\ [](\A r \in RoundIds, price \in Prices :
            (/\ cfg.initialized /\ rounds[r].exists /\ ~rounds[r].settled
             /\ now >= rounds[r].close_time)
            => SettleError(r, price) = "Ok")
    /\ [][(last'.op = "settle" /\ last'.result = "Ok" /\ now' = now)
          => /\ UNCHANGED <<bets, balance, cfg, paid>>
             /\ \E r \in RoundIds :
                   /\ ~rounds[r].settled /\ rounds'[r].settled
                   /\ now >= rounds[r].close_time
                   /\ rounds'[r] =
                         SettledRound(rounds[r], rounds'[r].close_price,
                                      SettleCompute(rounds[r].open_price,
                                                    rounds'[r].close_price,
                                                    rounds[r].total_up,
                                                    rounds[r].total_down,
                                                    cfg.house_edge_bps).val)]_vars

\* settle_round has just settled, at close_time itself, a round holding
\* wagers of both players, with the price below the open price.
C25_Witness ==
    /\ last.op = "settle" /\ last.result = "Ok"
    /\ \E r \in RoundIds :
          /\ rounds[r].settled /\ rounds[r].outcome = OUTCOME_DOWN
          /\ now = rounds[r].close_time
          /\ rounds[r].total_up > 0 /\ rounds[r].total_down > 0
          /\ \A k \in {r} \X Players : ~bets[k].claimed

\* C26: open_market succeeds only with the authorization of the stored
\* admin, place_prediction and claim only with the authorization of the
\* player they name: without it none of them returns Ok, and a call that
\* traps for lack of it creates no round and no bet, moves no tokens and
\* sets no claimed flag.
C26_Authorization ==
    /\ [](\A r \in RoundIds, t \in 0..(MaxTime + 1), price \in Prices :
            OpenError(FALSE, r, t, price) # "Ok")
    /\ [](\A p \in Players, r \in RoundIds :
            /\ ClaimError(FALSE, p, r) # "Ok"
            /\ \A d \in Directions, w \in Wagers : PlaceError(FALSE, p, r, d, w) # "Ok")
    /\ [](cfg.initialized
          => \A p \in Players, r \in RoundIds :
                /\ ClaimError(FALSE, p, r) = "AuthTrap"
                /\ OpenError(FALSE, r, now + 1, 50000) = "AuthTrap"
                /\ PlaceError(FALSE, p, r, DIRECTION_UP, 200) = "AuthTrap")
    /\ [][(last'.result = "AuthTrap")
          => UNCHANGED <<cfg, rounds, bets, balance, paid, nclaims, placed>>]_vars

\* A claim without the player's authorization trapped although the player
\* holds an unclaimed bet that a claim would pay.
C26_Witness ==
    /\ last.op = "claim" /\ last.result = "AuthTrap"
    /\ \E p \in Players, r \in RoundIds :
          /\ rounds[r].settled
          /\ bets[<<r, p>>].exists /\ ~bets[<<r, p>>].claimed
          /\ ClaimError(TRUE, p, r) = "Ok"

\* C27: a successful claim returns the payout: the value its caller
\* receives is the amount transferred from the escrow to the player.
C27_ReturnsPayout ==
    (last.op = "claim" /\ last.result = "Ok")
    => ClaimReturn(last.amount) = Some(last.amount)

\* The first guard of claim that fails, in the order RoundNotFound,
\* NotSettled, BetNotFound, AlreadyClaimed, NoPayout; "Ok" when none fails.
C28_FirstFailure(p, r) ==
    LET failing ==
            {i \in 1..5 :
                \/ i = 1 /\ ~rounds[r].exists
                \/ i = 2 /\ ~rounds[r].settled
                \/ i = 3 /\ ~bets[<<r, p>>].exists
                \/ i = 4 /\ bets[<<r, p>>].claimed
                \/ i = 5 /\ ClaimPayout(rounds[r], bets[<<r, p>>]).val = 0}
        names == <<"RoundNotFound", "NotSettled", "BetNotFound", "AlreadyClaimed",
                   "NoPayout">>
    IN  IF failing = {} THEN "Ok"
        ELSE names[CHOOSE i \in failing : \A j \in failing : i <= j]

\* C28: an authorized claim on an initialized contract returns the first
\* failing guard in the order RoundNotFound, NotSettled, BetNotFound,
\* AlreadyClaimed, NoPayout, so a player without a bet gets NotSettled on an
\* unsettled round and BetNotFound on a settled one; a claim that fails
\* leaves all bets, rounds and balances unchanged.
C28_ClaimGuardOrder ==
    /\ [](cfg.initialized
          => \A p \in Players, r \in RoundIds :
                LET first == C28_FirstFailure(p, r)
                    e == ClaimError(TRUE, p, r)
                IN  /\ ClaimGuard(p, r) = first
                    /\ first # "Ok" => e = first
                    /\ (rounds[r].exists /\ ~bets[<<r, p>>].exists)
                       => e = IF rounds[r].settled THEN "BetNotFound" ELSE "NotSettled")
    /\ [][(last'.op = "claim" /\ last'.result # "Ok")
          => /\ last'.amount = 0
             /\ UNCHANGED <<bets, rounds, balance, paid, nclaims>>]_vars

\* A player without a bet was refused with BetNotFound on a settled round
\* in which the other two players hold bets.
C28_Witness ==
    /\ last.op = "claim" /\ last.result = "BetNotFound"
    /\ \E r \in RoundIds :
          /\ rounds[r].settled
          /\ Cardinality({k \in {r} \X Players : bets[k].exists}) = 2
          /\ \E p \in Players : C28_FirstFailure(p, r) = "BetNotFound"

\* The first guard of place_prediction that fails, in the order
\* InvalidDirection, InvalidAmount, WagerTooLow, WagerTooHigh, RoundNotFound,
\* AlreadySettled, RoundClosed, BetAlreadyPlaced; "Ok" when none fails.
C29_FirstFailure(p, r, d, w) ==
    LET failing ==
            {i \in 1..8 :
                \/ i = 1 /\ d \notin {DIRECTION_UP, DIRECTION_DOWN}
                \/ i = 2 /\ w <= 0
                \/ i = 3 /\ w < cfg.min_wager
                \/ i = 4 /\ w > cfg.max_wager
                \/ i = 5 /\ ~rounds[r].exists
                \/ i = 6 /\ rounds[r].settled
                \/ i = 7 /\ now >= rounds[r].close_time
                \/ i = 8 /\ bets[<<r, p>>].exists}
        names == <<"InvalidDirection", "InvalidAmount", "WagerTooLow", "WagerTooHigh",
                   "RoundNotFound", "AlreadySettled", "RoundClosed", "BetAlreadyPlaced">>
    IN  IF failing = {} THEN "Ok"
        ELSE names[CHOOSE i \in failing : \A j \in failing : i <= j]

\* C29: an authorized place_prediction on an initialized contract returns
\* the first failing guard in the order InvalidDirection, InvalidAmount,
\* WagerTooLow, WagerTooHigh, RoundNotFound, AlreadySettled, RoundClosed,
\* BetAlreadyPlaced: an invalid direction on a round that does not exist
\* yields InvalidDirection, and an acceptable wager on a settled round
\* yields AlreadySettled, not RoundClosed.
C29_PlaceGuardOrder ==
    cfg.initialized
    => /\ \A p \in Players, r \in RoundIds, d \in Directions, w \in Wagers :
             LET first == C29_FirstFailure(p, r, d, w) IN
             /\ PlaceGuard(p, r, d, w) = first
             /\ first # "Ok" => PlaceError(TRUE, p, r, d, w) = first
       /\ \A p \in Players, r \in RoundIds :
             /\ ~rounds[r].exists
                => PlaceError(TRUE, p, r, 2, 200) = "InvalidDirection"
             /\ rounds[r].settled
                => /\ now >= rounds[r].close_time
                   /\ PlaceError(TRUE, p, r, DIRECTION_UP, 200) = "AlreadySettled"

\* A wager with an invalid direction was refused with InvalidDirection
\* while no round exists.
C29_Witness ==
    /\ last.op = "place" /\ last.result = "InvalidDirection"
    /\ cfg.initialized
    /\ \A r \in RoundIds : ~rounds[r].exists

\* The balances after w1 more tokens go from p1 to the escrow, given the
\* balances bal.
C30_Moved(bal, p1, w1) ==
    [a \in DOMAIN bal |->
        IF a = p1 THEN bal[a] - w1
        ELSE IF a = Contract THEN bal[a] + w1
        ELSE bal[a]]

\* C30: place_prediction calls of distinct players on one round commute.
\* In every step in which p1 successfully places (d1, w1) on round r, each
\* call (d2, w2) of another player p2 on r has the same result after the
\* step as before it; and when that result is Ok, placing p2's wager after
\* p1's gives the totals, bets and balances that placing p1's wager after
\* p2's gives.  (The steps of p2 are checked likewise, so each call's
\* result is the same in either order.)
C30_PlaceCommutes ==
    [][(last'.op = "place" /\ last'.result = "Ok" /\ now' = now)
       => \A p1 \in Players, r \in RoundIds :
             (~bets[<<r, p1>>].exists /\ bets'[<<r, p1>>].exists)
             => LET d1 == bets'[<<r, p1>>].direction
                    w1 == bets'[<<r, p1>>].wager
                IN  \A p2 \in Players \ {p1}, d2 \in Directions, w2 \in Wagers :
                       /\ PlaceError(TRUE, p2, r, d2, w2)' = PlaceError(TRUE, p2, r, d2, w2)
                       /\ PlaceError(TRUE, p2, r, d2, w2) = "Ok"
                          => /\ PlaceRound(rounds'[r], d2, w2) =
                                   PlaceRound(PlaceRound(rounds[r], d2, w2), d1, w1)
                             /\ [bets' EXCEPT ![<<r, p2>>] = PlaceBet(d2, w2)] =
                                   [[bets EXCEPT ![<<r, p2>>] = PlaceBet(d2, w2)]
                                       EXCEPT ![<<r, p1>>] = PlaceBet(d1, w1)]
                             /\ Transfer(p2, Contract, w2)' =
                                   C30_Moved(Transfer(p2, Contract, w2), p1, w1)]_vars

\* Two players have placed wagers on opposite sides of an open round, the
\* second while the first one's wager was already escrowed, and the third
\* can still place.
C30_Witness ==
    /\ last.op = "place" /\ last.result = "Ok"
    /\ \E r \in RoundIds :
          /\ now < rounds[r].close_time
          /\ bets[<<r, "P1">>].exists /\ bets[<<r, "P2">>].exists
          /\ bets[<<r, "P1">>].direction # bets[<<r, "P2">>].direction
          /\ bets[<<r, "P1">>].wager # bets[<<r, "P2">>].wager
          /\ ~bets[<<r, "P3">>].exists
          /\ PlaceError(TRUE, "P3", r, DIRECTION_UP, 200) = "Ok"

\* C31: every settled round that is not a push has winning_total > 0, so
\* the division net_pool * wager / winning_total of claim is defined for
\* every stored bet of a settled round; every settled push round has
\* winning_total = 0 and net_pool = 0.
C31_WinningTotalPositive ==
    \A r \in RoundIds :
       /\ Decisive(r) => rounds[r].winning_total > 0
       /\ Pushed(r) => rounds[r].winning_total = 0 /\ rounds[r].net_pool = 0
       /\ (rounds[r].exists /\ rounds[r].settled)
             => \A p \in Players :
                   bets[<<r, p>>].exists
                      => ClaimPayout(rounds[r], bets[<<r, p>>]).some

\* A winner of a decisive round has claimed the share the division gives.
C31_Witness ==
    \E r \in RoundIds, p \in Players :
       /\ Winner(r, p)
       /\ bets[<<r, p>>].claimed
       /\ rounds[r].winning_total > 0
       /\ paid[<<r, p>>] = Share(r, p)
       /\ paid[<<r, p>>] > 0

\* C32: tokens are conserved: the participants' balances plus the escrow
\* balance sum to the initial supply in every state. A call that fails
\* moves nothing; open, settle and init move nothing; a successful place
\* moves exactly the wager from one participant to the escrow, and a
\* successful claim moves exactly the payout from the escrow to one
\* participant.
C32_TotalSupply == 2 * StartBalance + SmallBalance

C32_TokensConserved ==
    /\ [](SumOver(balance, DOMAIN balance) = C32_TotalSupply)
    /\ [][(last'.result # "Ok" \/ last'.op \in {"init", "open", "settle"})
             => balance' = balance]_vars
    /\ [][(balance' # balance)
             => \E p \in Players :
                   \/ /\ last'.op = "place"
                      /\ balance' = [balance EXCEPT
                                        ![p] = @ - last'.amount,
                                        ![Contract] = @ + last'.amount]
                   \/ /\ last'.op = "claim"
                      /\ balance' = [balance EXCEPT
                                        ![Contract] = @ - last'.amount,
                                        ![p] = @ + last'.amount]]_vars

\* Wagers went into the escrow and a claim has paid part of them out again.
C32_Witness ==
    /\ last.op = "claim"
    /\ last.result = "Ok"
    /\ last.amount > 0
    /\ balance[Contract] > 0
    /\ \E p \in Players : balance[p] > StartBalance

\* The wagers escrowed on round r.
C33_Escrowed(r) == rounds[r].total_up + rounds[r].total_down

\* What the stored, unclaimed bets of the settled round r can still claim.
C33_Outstanding(r) ==
    IF rounds[r].exists /\ rounds[r].settled
    THEN SumOver([k \in RoundIds \X Players |->
                     IF bets[k].exists /\ ~bets[k].claimed
                     THEN ClaimPayout(rounds[k[1]], bets[k]).val
                     ELSE 0],
                 {r} \X Players)
    ELSE 0

\* C33: with house_edge_bps in [0, 10000], the claims on a round never pay
\* more in total than the wagers escrowed on that round; what remains of a
\* round's wagers covers every refund and winner share still outstanding on
\* it; the escrow, funded by wagers only, holds exactly the remainders of
\* all rounds, so a claim the guards accept is never refused for lack of
\* funds and never draws on another round's wagers.
C33_EscrowSolvent ==
    EdgeInRange =>
       /\ \A r \in RoundIds :
             /\ SumPaid(r) <= C33_Escrowed(r)
             /\ C33_Outstanding(r) <= C33_Escrowed(r) - SumPaid(r)
             /\ \A p \in Players :
                   ClaimGuard(p, r) = "Ok" => ClaimError(TRUE, p, r) = "Ok"
       /\ balance[Contract] =
             SumOver([r \in RoundIds |-> C33_Escrowed(r) - SumPaid(r)], RoundIds)

\* Both rounds hold wagers, a winner of round 1 has been paid, and round 2
\* still has an unclaimed payout outstanding.
C33_Witness ==
    /\ EdgeInRange
    /\ SumPaid(1) > 0
    /\ Decisive(1)
    /\ C33_Escrowed(2) > 0
    /\ SumPaid(2) = 0
    /\ C33_Outstanding(2) > 0

\* The balances bal after the escrow has also paid amount to player p.
C34_Paid(bal, p, amount) ==
    [a \in DOMAIN bal |->
        IF a = p THEN bal[a] + amount
        ELSE IF a = Contract THEN bal[a] - amount
        ELSE bal[a]]

\* In a step in which p successfully claims on round r: p receives the
\* payout computed from the round record and p's own bet; every other
\* player's claim on r has the same result and the same payout after the
\* step as before it; and when that result is Ok, paying q after p leaves
\* the bets and balances that paying p after q leaves.
C34_StepCommutes ==
    \A p \in Players, r \in RoundIds :
       (~bets[<<r, p>>].claimed /\ bets'[<<r, p>>].claimed)
       => LET mine == ClaimPayout(rounds[r], bets[<<r, p>>]).val
          IN  /\ last'.amount = mine
              /\ balance'[p] = balance[p] + mine
              /\ \A q \in Players \ {p} :
                    LET e == ClaimError(TRUE, q, r)
                        theirs == ClaimPayout(rounds[r], bets[<<r, q>>])
                    IN  /\ ClaimError(TRUE, q, r)' = e
                        /\ ClaimPayout(rounds[r], bets[<<r, q>>])' = theirs
                        /\ e = "Ok"
                           => /\ [bets' EXCEPT ![<<r, q>>] = ClaimedBet(@)] =
                                    [[bets EXCEPT ![<<r, q>>] = ClaimedBet(@)]
                                        EXCEPT ![<<r, p>>] = ClaimedBet(@)]
                              /\ Transfer(Contract, q, theirs.val)' =
                                    C34_Paid(Transfer(Contract, q, theirs.val),
                                             p, mine)

\* C34: claims on a settled round are order-independent: the amount each
\* participant receives depends only on the round record and that
\* participant's own bet, and any two orders of the same claimants give
\* each the same result, the same payout and the same final state.
C34_ClaimsCommute ==
    [][(last'.op = "claim" /\ last'.result = "Ok" /\ now' = now)
          => C34_StepCommutes]_vars

\* The same property for a stored house_edge_bps within [0, 10000].
C34_ClaimsCommuteInRange ==
    [][(last'.op = "claim" /\ last'.result = "Ok" /\ now' = now /\ EdgeInRange)
          => C34_StepCommutes]_vars

\* The additions or the multiplication of settle_round leave the integer
\* range for round r at closing price price.
C35_Overflows(r, price) ==
    LET pool == rounds[r].total_up + rounds[r].total_down
        outcome == SettleOutcome(rounds[r].open_price, price)
    IN  \/ ~InRange(pool)
        \/ /\ ~SettleIsPush(outcome, pool, rounds[r].total_up, rounds[r].total_down)
           /\ cfg.house_edge_bps # 0
           /\ pool > I128_MAX \div Abs(cfg.house_edge_bps)

\* C35: once now >= close_time, settle_round on an existing unsettled round
\* succeeds whatever the feed price and the bets are, unless the pool sum
\* or total_pool * house_edge_bps leaves the integer range; then it fails
\* with Overflow and the round stays unsettled and unchanged. So when time
\* keeps advancing and settle_round keeps being called, every opened round
\* whose settlement cannot overflow is eventually settled.
C35_EventuallySettled ==
    /\ [](\A r \in RoundIds, price \in Prices :
             (rounds[r].exists /\ ~rounds[r].settled /\ now >= rounds[r].close_time
              /\ cfg.initialized)
             => /\ SettleError(r, price) = (IF C35_Overflows(r, price)
                                            THEN "Overflow" ELSE "Ok"))
    /\ [][(last'.op = "settle" /\ last'.result = "Overflow" /\ now' = now)
             => UNCHANGED <<rounds, bets, balance, cfg>>]_vars
    /\ \A r \in RoundIds :
          (rounds[r].exists /\ cfg.house_edge_bps # HugeEdge) ~> rounds[r].settled

\* A closed round with wagers on both sides has just been settled at a
\* decisive price.
C35_Witness ==
    /\ last.op = "settle" /\ last.result = "Ok"
    /\ Decisive(1) /\ now >= rounds[1].close_time
    /\ rounds[1].close_time > 0

\* C36: a bet on the winning side whose floored share is 0 cannot be
\* claimed: the claim returns NoPayout, transfers nothing and leaves the
\* bet unclaimed, exactly as for a losing bet; such a bet is never marked
\* claimed and never paid.
C36_ZeroShareNoPayout ==
    /\ [](\A p \in Players, r \in RoundIds :
            (Winner(r, p) /\ Share(r, p) = 0)
            => /\ ~bets[<<r, p>>].claimed
               /\ paid[<<r, p>>] = 0
               /\ ClaimError(TRUE, p, r) = "NoPayout")
    /\ [][(last'.op = "claim" /\ now' = now)
          => \A p \in Players, r \in RoundIds :
                (Winner(r, p) /\ Share(r, p) = 0 /\ Claim(TRUE, p, r))
                => /\ last'.result = "NoPayout"
                   /\ last'.amount = 0
                   /\ UNCHANGED <<rounds, bets, balance, paid, nclaims>>]_vars

\* A claim returned NoPayout in a decisive round with a positive net pool
\* in which every winner's share floors to zero.
C36_Witness ==
    /\ last.op = "claim" /\ last.result = "NoPayout"
    /\ \E r \in RoundIds :
          /\ Decisive(r)
          /\ rounds[r].net_pool > 0
          /\ \E p \in Players : Winner(r, p)
          /\ \A p \in Players :
                Winner(r, p) => Share(r, p) = 0 /\ ~bets[<<r, p>>].claimed

\* The players holding a bet on the winning side of round r.
C37_Winners(r) == {p \in Players : Winner(r, p)}

\* The sum of the floored shares of the winners of round r.
C37_Shares(r) ==
    SumOver([k \in RoundIds \X Players |-> Share(k[1], k[2])], {r} \X C37_Winners(r))

\* C37: in a settled non-push round with house_edge_bps in [0, 10000],
\* net_pool minus the sum of the winners' floored shares is at least 0 and
\* less than the number of winning bets; once every winning bet has been
\* claimed or has a zero share, that difference is what the claims have
\* left of net_pool.
C37_DustBounded ==
    \A r \in RoundIds :
       (Decisive(r) /\ EdgeInRange)
       => LET dust == rounds[r].net_pool - C37_Shares(r)
          IN  /\ dust >= 0
              /\ dust < Cardinality(C37_Winners(r))
              /\ (\A p \in C37_Winners(r) :
                     bets[<<r, p>>].claimed \/ Share(r, p) = 0)
                 => rounds[r].net_pool - SumPaid(r) = dust

\* Two winners have both claimed and one token of net_pool is left over.
C37_Witness ==
    \E r \in RoundIds :
       /\ Decisive(r) /\ EdgeInRange
       /\ Cardinality(C37_Winners(r)) = 2
       /\ \A p \in C37_Winners(r) : bets[<<r, p>>].claimed
       /\ rounds[r].net_pool - SumPaid(r) = 1

\* floor(total_pool * house_edge_bps / 10000) of round r, for an edge >= 0.
C38_Fee(r) == (C33_Escrowed(r) * cfg.house_edge_bps) \div BASIS_POINTS_DIVISOR

\* C38: with house_edge_bps in [0, 10000], the fee and the dust of a
\* decisive round never leave the escrow: what is left of the round's
\* wagers is always at least floor(total_pool * house_edge_bps / 10000),
\* and exactly the fee plus the rounding dust once every winner has claimed
\* or has a zero share; the escrow balance is at least the sum of the fees
\* of the decisive rounds.
C38_FeeStaysInEscrow ==
    EdgeInRange =>
       /\ \A r \in RoundIds :
             Decisive(r)
             => /\ C33_Escrowed(r) - SumPaid(r) >= C38_Fee(r)
                /\ (\A p \in C37_Winners(r) :
                       bets[<<r, p>>].claimed \/ Share(r, p) = 0)
                   => C33_Escrowed(r) - SumPaid(r) =
                         C38_Fee(r) + (rounds[r].net_pool - C37_Shares(r))
       /\ balance[Contract] >=
             SumOver([r \in RoundIds |-> IF Decisive(r) THEN C38_Fee(r) ELSE 0],
                     RoundIds)

\* Both rounds are decisive, every winner has claimed, and the escrow holds
\* the two fees.
C38_Witness ==
    /\ EdgeInRange
    /\ \A r \in RoundIds :
          /\ Decisive(r)
          /\ C38_Fee(r) > 0
          /\ \A p \in C37_Winners(r) : bets[<<r, p>>].claimed
    /\ balance[Contract] = C38_Fee(1) + C38_Fee(2)

\* The step is a successful call of open_market, place_prediction,
\* settle_round or claim on round r.
C39_ActsOn(r) ==
    \/ /\ last'.op = "open"
       /\ \E t \in 0..MaxTime, price \in Prices : OpenMarket(TRUE, r, t, price)
    \/ /\ last'.op = "place"
       /\ \E p \in Players, d \in {DIRECTION_UP, DIRECTION_DOWN} :
             PlacePrediction(TRUE, p, r, d, last'.amount)
    \/ /\ last'.op = "settle"
       /\ \E price \in Prices : SettleRound(r, price)
    \/ /\ last'.op = "claim"
       /\ \E p \in Players : Claim(TRUE, p, r)

\* C39: rounds are independent. A call of open_market, place_prediction,
\* settle_round or claim on round r leaves the record of every other round
\* and every bet of every other round unchanged (a failed call leaves all
\* of them unchanged); and a participant's bet or claim in one round never
\* blocks the same participant's bet or claim in another: only the bet of
\* that round makes place_prediction return BetAlreadyPlaced, and only its
\* claimed flag makes claim return AlreadyClaimed.
C39_RoundsIndependent ==
    /\ [][(last'.result = "Ok" /\ now' = now)
          => \A r \in RoundIds :
                C39_ActsOn(r)
                => \A r2 \in RoundIds \ {r} :
                      /\ rounds'[r2] = rounds[r2]
                      /\ \A p \in Players :
                            /\ bets'[<<r2, p>>] = bets[<<r2, p>>]
                            /\ paid'[<<r2, p>>] = paid[<<r2, p>>]]_vars
    /\ [][(last'.result # "Ok") => UNCHANGED <<rounds, bets, paid>>]_vars
    /\ [](\A p \in Players, r \in RoundIds :
             /\ PlaceGuard(p, r, DIRECTION_UP, 200) = "BetAlreadyPlaced"
                   => bets[<<r, p>>].exists
             /\ ClaimGuard(p, r) = "AlreadyClaimed" => bets[<<r, p>>].claimed)

\* P1 holds a bet in each of the two rounds and has claimed each of them,
\* the second claim while the first was already paid.
C39_Witness ==
    /\ last.op = "claim" /\ last.result = "Ok"
    /\ \A r \in RoundIds :
          /\ bets[<<r, "P1">>].exists
          /\ bets[<<r, "P1">>].claimed
          /\ paid[<<r, "P1">>] > 0
    /\ bets[<<1, "P1">>].direction # bets[<<2, "P1">>].direction
    /\ \E r \in RoundIds : bets[<<r, "P2">>].exists /\ ~bets[<<r, "P2">>].claimed

\* Closing prices no opening price may take.
C40_BadPrices == {-50000, 0}

\* C40: the closing price is not validated. open_market rejects a price
\* <= 0 with InvalidPrice, but settle_round accepts any feed value as the
\* closing price: on a closed unsettled round with wagers on both sides a
\* closing price of 0 or below settles as a decisive Down, and every
\* settled round with such a closing price has outcome Down.
C40_ClosePriceUnchecked ==
    /\ \A r \in RoundIds, price \in C40_BadPrices :
          /\ \A t \in 0..(MaxTime + 1) :
                /\ OpenError(TRUE, r, t, price) # "Ok"
                /\ (cfg.initialized /\ ~rounds[r].exists /\ t > now)
                   => OpenError(TRUE, r, t, price) = "InvalidPrice"
          /\ (/\ cfg.initialized /\ rounds[r].exists /\ ~rounds[r].settled
              /\ now >= rounds[r].close_time
              /\ rounds[r].total_up > 0 /\ rounds[r].total_down > 0)
             => /\ SettleError(r, price) = "Ok"
                /\ SettleResult(r, price).val.outcome = OUTCOME_DOWN
                /\ ~SettleResult(r, price).val.is_push
                /\ SettleResult(r, price).val.winning_total = rounds[r].total_down
    /\ \A r \in RoundIds :
          (rounds[r].exists /\ rounds[r].settled /\ rounds[r].close_price <= 0)
          => /\ rounds[r].open_price > 0
             /\ rounds[r].outcome = OUTCOME_DOWN
             /\ (rounds[r].total_up > 0 /\ rounds[r].total_down > 0)
                => ~rounds[r].is_push

\* A round with wagers on both sides has just been settled at closing
\* price 0 as a decisive Down.
C40_Witness ==
    /\ last.op = "settle" /\ last.result = "Ok"
    /\ \E r \in RoundIds :
          /\ Decisive(r)
          /\ rounds[r].close_price = 0
          /\ rounds[r].outcome = OUTCOME_DOWN
          /\ rounds[r].total_up > 0 /\ rounds[r].total_down > 0
          /\ rounds[r].winning_total = rounds[r].total_down

====
